---- MODULE Spec2Model ----
(***************************************************************************)
(* A model of the hotel-price scraper: the page-0 request and its          *)
(* validation (BasicGraphQLScraper.check_info), the concurrent fan-out of  *)
(* page fetches (_fetch_hotel_data / fetch_hotel_data under                *)
(* asyncio.gather), the listing extractor, the table assembler             *)
(* (transform_data_in_df) and the SQLite store with its five aggregate     *)
(* tables (migrate_data_to_sqlite).                                        *)
(*                                                                         *)
(* Python values are tagged records: None, numbers, strings, dicts (a      *)
(* function from keys to values) and lists (a sequence).  An exception     *)
(* raised by an expression is the value Exc(name), and it propagates       *)
(* through the operators the way it propagates through the statements.     *)
(***************************************************************************)
EXTENDS Integers, Sequences, FiniteSets, TLC

VARIABLES
    req,        \* the BasicGraphQLScraper fields set by the caller
    pc,         \* where scrape_graphql is: "start", "page0", "gather", "done";
                \* "extract", "transform", "store" when a part runs on its own
    data,       \* self.data, the decoded page-0 response
    total,      \* total_page_num as returned by check_info
    session,    \* the fan-out's aiohttp.ClientSession: "none", "open", "closed"
    tasks,      \* the fan-out tasks handed to asyncio.gather, in offset order
    outcome,    \* how scrape_graphql ended: "none", "table", "abort", "raise";
                \* how the last call on the store ended: "ok", "raise"
    table,      \* the DataFrame scrape_graphql returned
    posts,      \* number of page-0 requests sent by _get_response_data
    raw,        \* input of the extractor / assembler when run on their own,
                \* and the DataFrame of the last call on the store
    df_list,    \* the extractor's output collection
    out,        \* the assembler's result when run on its own
    db,         \* the SQLite database file: its tables and their rows
    overtaken   \* history: a page fetch has completed before one of a lower
                \* offset

vars == <<req, pc, data, total, session, tasks, outcome, table, posts,
          raw, df_list, out, db, overtaken>>

pureVars == <<raw, df_list, out, db>>

(***************************************************************************)
(* Python values                                                           *)
(***************************************************************************)
None == [t |-> "None"]
Num(n) == [t |-> "num", v |-> n]
Str(s) == [t |-> "str", v |-> s]
Bool(b) == [t |-> "bool", v |-> b]
Dict(f) == [t |-> "dict", v |-> f]
List(s) == [t |-> "list", v |-> s]
Exc(name) == [t |-> "exc", v |-> name]

IsExc(x) == x.t = "exc"

\* x[k] for a string key: KeyError on a dict without k, TypeError on a value
\* that is no dict (None, a list, a number); an exception in x propagates.
Sub(x, k) ==
    IF IsExc(x) THEN x
    ELSE IF x.t = "dict"
         THEN IF k \in DOMAIN x.v THEN x.v[k] ELSE Exc("KeyError")
         ELSE Exc("TypeError")

\* x[0] on a list: IndexError on an empty list, TypeError on None or a number,
\* KeyError on a dict (which has no key 0 here).
First(x) ==
    IF IsExc(x) THEN x
    ELSE IF x.t = "list"
         THEN IF Len(x.v) > 0 THEN x.v[1] ELSE Exc("IndexError")
         ELSE IF x.t = "dict" THEN Exc("KeyError") ELSE Exc("TypeError")

\* bool(x): the truth value Python's `if x:` uses.
Truthy(x) ==
    CASE x.t = "None" -> FALSE
      [] x.t = "num"  -> x.v # 0
      [] x.t = "str"  -> x.v # ""
      [] x.t = "bool" -> x.v
      [] x.t = "dict" -> DOMAIN x.v # {}
      [] x.t = "list" -> Len(x.v) > 0
      [] OTHER -> TRUE

\* a == b for two Python scalars (values of different types are unequal).
PyEq(a, b) ==
    /\ a.t = b.t
    /\ (a.t = "None" \/ a.v = b.v)

\* str.lower() on the names the model uses.
Lower(s) ==
    CASE s = "Osaka" -> "osaka"
      [] s = "OSAKA" -> "osaka"
      [] s = "Japan" -> "japan"
      [] s = "JAPAN" -> "japan"
      [] OTHER -> s

(***************************************************************************)
(* The page-0 response and its validation (check_info)                     *)
(***************************************************************************)

\* self.data['data']['searchQueries']['search'][key]
SearchPath(d, key) == Sub(Sub(Sub(Sub(d, "data"), "searchQueries"), "search"), key)

\* The value at pagination.nbResultsTotal, whatever its
\* type; 0 when the lookup raises TypeError or KeyError.
_find_total_page_num(d) ==
    LET v == Sub(SearchPath(d, "pagination"), "nbResultsTotal")
    IN  IF IsExc(v) THEN Num(0) ELSE v

\* The name of the last breadcrumb from i on whose name equals `wanted`
\* ignoring case, else `default`.
MatchLastBreadcrumb(crumbs, i, wanted, default) ==
    LET hits == {k \in i..Len(crumbs) :
                    /\ crumbs[k].t = "dict"
                    /\ "name" \in DOMAIN crumbs[k].v
                    /\ crumbs[k].v["name"].t = "str"
                    /\ Lower(crumbs[k].v["name"].v) = Lower(wanted)}
    IN  IF hits = {} THEN Str(default)
        ELSE crumbs[CHOOSE k \in hits : \A h \in hits : h <= k].v["name"]

\* The loop of _check_city_data / _check_country_data from breadcrumb i on:
\* the name of the first breadcrumb whose non-None name equals `wanted`
\* ignoring case, else `default`.
RECURSIVE MatchBreadcrumb(_, _, _, _)
MatchBreadcrumb(crumbs, i, wanted, default) ==
    IF i > Len(crumbs) THEN Str(default)
    ELSE LET b == crumbs[i] IN
         IF b.t # "dict" THEN Exc("AttributeError")
         ELSE LET name == IF "name" \in DOMAIN b.v THEN b.v["name"] ELSE None IN
              IF name.t = "None" THEN MatchBreadcrumb(crumbs, i + 1, wanted, default)
              ELSE IF name.t # "str" THEN Exc("AttributeError")
              ELSE IF Lower(name.v) = Lower(wanted) THEN name
              ELSE MatchBreadcrumb(crumbs, i + 1, wanted, default)

BreadcrumbData(d, wanted, default) ==
    LET crumbs == SearchPath(d, "breadcrumbs") IN
    IF IsExc(crumbs) THEN crumbs
    ELSE IF crumbs.t # "list" THEN Exc("TypeError")
    ELSE MatchBreadcrumb(crumbs.v, 1, wanted, default)

\* The city check returning the requested spelling when a breadcrumb matches.
_check_city_as_entered(d, r) ==
    LET found == BreadcrumbData(d, r.city.v, "Not Match") IN
    IF IsExc(found) \/ found = Str("Not Match") THEN found ELSE r.city

_check_city_data(d, r) == BreadcrumbData(d, r.city.v, "Not Match")

_check_country_data(d, r) == BreadcrumbData(d, r.country.v, "")

\* The inner loop of _check_currency_data over one result's blocks: the
\* currency of the first block holding 'finalPrice' (then break), or `acc`
\* unchanged when no block holds one.
RECURSIVE BlockCurrency(_, _, _)
BlockCurrency(blocks, j, acc) ==
    IF j > Len(blocks) THEN acc
    ELSE LET block == blocks[j] IN
         IF block.t # "dict" THEN Exc("TypeError")
         ELSE IF "finalPrice" \in DOMAIN block.v
              THEN Sub(Sub(block, "finalPrice"), "currency")
              ELSE BlockCurrency(blocks, j + 1, acc)

\* The outer loop of _check_currency_data from result i on.  The break leaves
\* only the inner loop, so every later result is scanned as well.
RECURSIVE ResultCurrency(_, _, _)
ResultCurrency(results, i, acc) ==
    IF i > Len(results) THEN acc
    ELSE LET result == results[i] IN
         IF result.t # "dict" THEN Exc("TypeError")
         ELSE IF "blocks" \in DOMAIN result.v
              THEN LET blocks == result.v["blocks"] IN
                   IF blocks.t # "list" THEN Exc("TypeError")
                   ELSE LET c == BlockCurrency(blocks.v, 1, acc) IN
                        IF IsExc(c) THEN c
                        ELSE ResultCurrency(results, i + 1, c)
              ELSE ResultCurrency(results, i + 1, acc)

_check_currency_data(d) ==
    LET results == SearchPath(d, "results") IN
    IF IsExc(results) THEN results
    ELSE IF results.t # "list" THEN Exc("TypeError")
    ELSE ResultCurrency(results.v, 1, None)

\* The hotel filter read without catching the KeyError of a missing path.
_check_hotel_filter_strict(d) ==
    LET options == SearchPath(d, "appliedFilterOptions") IN
    IF IsExc(options) THEN options
    ELSE IF options.t # "list" THEN Exc("TypeError")
    ELSE Bool(\E i \in DOMAIN options.v :
                /\ options.v[i].t = "dict"
                /\ "urlId" \in DOMAIN options.v[i].v
                /\ PyEq(options.v[i].v["urlId"], Str("ht_id=204")))

\* A KeyError on the path gives False.
_check_hotel_filter_data(d) ==
    LET options == SearchPath(d, "appliedFilterOptions") IN
    IF IsExc(options)
    THEN IF options.v = "KeyError" THEN Bool(FALSE) ELSE options
    ELSE IF options.t # "list" THEN Exc("TypeError")
    ELSE IF \E i \in DOMAIN options.v : options.v[i].t # "dict"
         THEN Exc("TypeError")
    ELSE Bool(\E i \in DOMAIN options.v :
                /\ "urlId" \in DOMAIN options.v[i].v
                /\ PyEq(options.v[i].v["urlId"], Str("ht_id=204")))

\* keys_to_check without 'selected_currency'.
keys_without_currency ==
    <<"city", "country", "check_in", "check_out", "group_adults",
      "group_children", "num_rooms", "scrape_only_hotel">>

keys_to_check ==
    <<"city", "country", "check_in", "check_out", "group_adults",
      "group_children", "num_rooms", "selected_currency", "scrape_only_hotel">>

\* The BookingDetails built by check_info from the response (lines 650-669),
\* field by field in evaluation order; a field may hold an exception.
BookingDetails(d, r) ==
    LET currency == _check_currency_data(d)
        cal == Sub(SearchPath(d, "flexibleDatesConfig"), "dateRangeCalendar")
        meta == SearchPath(d, "searchMeta")
    IN  [city |-> _check_city_data(d, r),
         country |-> _check_country_data(d, r),
         selected_currency |-> IF currency.t = "None" THEN Str("USD") ELSE currency,
         scrape_only_hotel |-> _check_hotel_filter_data(d),
         check_in |-> First(Sub(cal, "checkin")),
         check_out |-> First(Sub(cal, "checkout")),
         group_adults |-> Sub(meta, "nbAdults"),
         group_children |-> Sub(meta, "nbChildren"),
         num_rooms |-> Sub(meta, "nbRooms")]

\* The order in which check_info evaluates the fields of BookingDetails.
evaluation_order ==
    <<"city", "country", "selected_currency", "scrape_only_hotel", "check_in",
      "check_out", "group_adults", "group_children", "num_rooms">>

\* check_info with the cross-check made whatever the total is.
check_info_unconditional(d, r) ==
    LET total_page_num == _find_total_page_num(d)
        bd == BookingDetails(d, r)
        raised == {i \in DOMAIN evaluation_order : IsExc(bd[evaluation_order[i]])}
        differ == {i \in DOMAIN keys_to_check :
                     ~PyEq(r[keys_to_check[i]], bd[keys_to_check[i]])}
    IN  IF raised # {}
        THEN LET i == CHOOSE i \in raised : \A j \in raised : i <= j
             IN  [kind |-> "raise", exc |-> bd[evaluation_order[i]].v]
        ELSE IF differ # {}
        THEN LET i == CHOOSE i \in differ : \A j \in differ : i <= j
             IN  [kind |-> "abort", key |-> keys_to_check[i]]
        ELSE [kind |-> "ok",
              total |-> IF Truthy(total_page_num) THEN total_page_num ELSE Num(0)]

\* check_info: [kind |-> "ok", total] when validation passes or is skipped,
\* [kind |-> "raise"] when building BookingDetails raises, [kind |-> "abort"]
\* (SystemExit) at the first key whose entered value differs from the response.
check_info(d, r) ==
    LET total_page_num == _find_total_page_num(d) IN
    IF Truthy(total_page_num)
    THEN LET bd == BookingDetails(d, r)
             raised == {i \in DOMAIN evaluation_order : IsExc(bd[evaluation_order[i]])}
             differ == {i \in DOMAIN keys_to_check :
                          ~PyEq(r[keys_to_check[i]], bd[keys_to_check[i]])}
         IN  IF raised # {}
             THEN LET i == CHOOSE i \in raised : \A j \in raised : i <= j
                  IN  [kind |-> "raise", exc |-> bd[evaluation_order[i]].v]
             ELSE IF differ # {}
             THEN LET i == CHOOSE i \in differ : \A j \in differ : i <= j
                  IN  [kind |-> "abort", key |-> keys_to_check[i]]
             ELSE [kind |-> "ok", total |-> total_page_num]
    ELSE [kind |-> "ok", total |-> Num(0)]

_validate_inputs(r) ==
    /\ Truthy(r.city)
    /\ Truthy(r.check_in)
    /\ Truthy(r.check_out)
    /\ Truthy(r.selected_currency)

(***************************************************************************)
(* The response fetcher of one fan-out page (fetch_hotel_data)             *)
(***************************************************************************)

\* What the transport hands to one request: an exception raised by
\* session.post, or a response with a status and a body.  A body is a decoded
\* JSON value, or NotJson when response.json() cannot decode it.
NotJson == [t |-> "notjson"]
Failed(name) == [kind |-> "error", exc |-> name]
Response(status, body) == [kind |-> "response", status |-> status, body |-> body]

\* response.json(): JSONDecodeError / ContentTypeError on an undecodable body.
Json(response) ==
    IF response.body.t = "notjson" THEN Exc("ContentTypeError") ELSE response.body

\* fetch_hotel_data given what the transport returned: the list at
\* data.searchQueries.search.results, [] when the status is not 200 or the
\* path lookup raises; response.json() is called outside the try block.
fetch_hotel_data(response) ==
    IF response.kind = "error" THEN Exc(response.exc)
    ELSE IF response.status = 200
         THEN LET d == Json(response) IN
              IF IsExc(d) THEN d
              ELSE LET results == SearchPath(d, "results") IN
                   IF IsExc(results) THEN List(<<>>) ELSE results
         ELSE List(<<>>)

(***************************************************************************)
(* The listing extractor (extract_hotel_data) and concat_df_list           *)
(***************************************************************************)

\* x.get(k) that also tolerates x being None or no dict.
Opt(x, k) == IF x.t = "dict" /\ k \in DOMAIN x.v THEN x.v[k] ELSE None

\* x[0] that tolerates x being None or an empty list.
OptFirst(x) == IF x.t = "list" /\ Len(x.v) > 0 THEN x.v[1] ELSE None

\* The four fields of one raw listing.
HotelOf(h) == Opt(Opt(h, "displayName"), "text")
\* The review score read without tolerating a null reviewScore.
ReviewOfShallow(h) == Sub(Sub(Opt(h, "basicPropertyData"), "reviewScore"), "score")

ReviewOf(h) == Opt(Opt(Opt(h, "basicPropertyData"), "reviewScore"), "score")
PriceOf(h) == Opt(Opt(OptFirst(Opt(h, "blocks")), "finalPrice"), "amount")
LocationOf(h) == Opt(Opt(h, "location"), "displayLocation")

ListingRow(h) ==
    [Hotel |-> HotelOf(h), Review |-> ReviewOf(h),
     Price |-> PriceOf(h), Location |-> LocationOf(h)]

\* One DataFrame holding a row per raw listing is appended by each call with
\* a non-empty list.
extract_as_one_batch(dfs, hotel_data_list) ==
    IF hotel_data_list = <<>> THEN dfs
    ELSE Append(dfs, [i \in 1..Len(hotel_data_list) |-> ListingRow(hotel_data_list[i])])

\* extract_hotel_data(df_list, hotel_data_list): one single-row DataFrame is
\* appended per raw listing, in input order (the tests find len(df_list) = 2
\* after one call with two listings).
extract_hotel_data(dfs, hotel_data_list) ==
    dfs \o [i \in 1..Len(hotel_data_list) |-> <<ListingRow(hotel_data_list[i])>>]

\* The rows of a list of DataFrames, batch after batch.
RECURSIVE Flatten(_)
Flatten(dfs) == IF dfs = <<>> THEN <<>> ELSE Head(dfs) \o Flatten(Tail(dfs))

\* concat_df_list: one DataFrame, rows in batch order then intra-batch order,
\* indexed by position.
concat_df_list(dfs) ==
    LET rows == Flatten(dfs)
    IN  [i \in 1..Len(rows) |-> ("idx" :> i) @@ rows[i]]

(***************************************************************************)
(* The table assembler (transform_data_in_df)                              *)
(***************************************************************************)

RECURSIVE GCD(_, _)
GCD(a, b) == IF b = 0 THEN a ELSE GCD(b, a % b)

\* The quotient r / p instead of p / r.
FracInverted(p, r) == [t |-> "frac", n |-> r \div GCD(p, r), d |-> p \div GCD(p, r)]

\* The quotient p / r of two non-zero numbers, in lowest terms.
Frac(p, r) == [t |-> "frac", n |-> p \div GCD(p, r), d |-> r \div GCD(p, r)]

\* float(s) for the strings the model uses; None when s is no number.
ParseNumber(s) ==
    CASE s = "0"  -> Num(0)
      [] s = "10" -> Num(10)
      [] s = "20" -> Num(20)
      [] OTHER -> None

\* pd.to_numeric(errors='coerce') on one cell.
to_numeric(x) ==
    CASE x.t = "num" -> x
      [] x.t = "str" -> ParseNumber(x.v)
      [] OTHER -> None

\* df.iloc[keep]: the rows at the positions in `keep`, in order, from i on.
RECURSIVE Pick(_, _, _)
Pick(df, keep, i) ==
    IF i > Len(df) THEN <<>>
    ELSE (IF i \in keep THEN <<df[i]>> ELSE <<>>) \o Pick(df, keep, i + 1)

\* No duplicate is dropped.
keep_duplicates(df) == df

\* dataframe.drop_duplicates(subset='Hotel'): a row is kept when no earlier
\* row has an equal Hotel (missing values are equal to each other).
drop_duplicates(df) ==
    Pick(df, {i \in DOMAIN df : \A j \in 1..(i - 1) : ~PyEq(df[j].Hotel, df[i].Hotel)}, 1)

\* dropna(subset=['Hotel', 'Review', 'Price'])
dropna(df) ==
    Pick(df, {i \in DOMAIN df : /\ df[i].Hotel.t # "None"
                                /\ df[i].Review.t # "None"
                                /\ df[i].Price.t # "None"}, 1)

\* No row is dropped for a zero.
keep_zero(df) == df

\* df[(df['Price'] != 0) & (df['Review'] != 0)]
drop_zero(df) ==
    Pick(df, {i \in DOMAIN df : df[i].Price.v # 0 /\ df[i].Review.v # 0}, 1)

\* The assembler with duplicates dropped after the invalid rows instead of
\* before the coercion.
transform_dedup_last(check_in, city, dataframe, now) ==
    IF dataframe = <<>> THEN dataframe
    ELSE LET stamped == [i \in DOMAIN dataframe |->
                           [City |-> city, Date |-> check_in, AsOf |-> now] @@ dataframe[i]]
             numeric == [i \in DOMAIN stamped |->
                           [stamped[i] EXCEPT !.Price = to_numeric(@),
                                              !.Review = to_numeric(@)]]
             valid == drop_duplicates(drop_zero(dropna(numeric)))
         IN  [i \in DOMAIN valid |->
                ("Price/Review" :> Frac(valid[i].Price.v, valid[i].Review.v)) @@ valid[i]]

\* transform_data_in_df(check_in, city, dataframe), with `now` the value of
\* datetime.datetime.now().
transform_data_in_df(check_in, city, dataframe, now) ==
    IF dataframe = <<>> THEN dataframe
    ELSE LET stamped == [i \in DOMAIN dataframe |->
                           [City |-> city, Date |-> check_in, AsOf |-> now] @@ dataframe[i]]
             deduped == drop_duplicates(stamped)
             numeric == [i \in DOMAIN deduped |->
                           [deduped[i] EXCEPT !.Price = to_numeric(@),
                                              !.Review = to_numeric(@)]]
             valid == drop_zero(dropna(numeric))
         IN  [i \in DOMAIN valid |->
                ("Price/Review" :> Frac(valid[i].Price.v, valid[i].Review.v)) @@ valid[i]]

(***************************************************************************)
(* The SQLite store (migrate_to_sqlite.py): the HotelPrice table and the   *)
(* five aggregate tables computed from it                                  *)
(***************************************************************************)

\* A database file without any table.  `peers` is the order in which the
\* engine ranks rows whose ORDER BY keys are equal, which SQL leaves open and
\* which is fixed for one build: by ascending or by descending rowid.
EmptyDatabase(peers) ==
    [peers |-> peers,
     tables |-> {},
     HotelPrice |-> <<>>,
     AverageRoomPriceByDateTable |-> {},
     AverageHotelRoomPriceByReview |-> {},
     AverageHotelRoomPriceByDayOfWeek |-> {},
     AverageHotelRoomPriceByMonth |-> {},
     AverageHotelRoomPriceByLocation |-> {}]

\* A REAL cell as a rational number n / d.
Rat(x) == IF x.t = "num" THEN [n |-> x.v, d |-> 1] ELSE [n |-> x.n, d |-> x.d]

LessRat(a, b) == a.n * b.d < b.n * a.d

EqRat(a, b) == a.n * b.d = b.n * a.d

\* The sum of val[i] over the rows i in S.
RECURSIVE SumRat(_, _)
SumRat(val, S) ==
    IF S = {} THEN [n |-> 0, d |-> 1]
    ELSE LET i == CHOOSE i \in S : TRUE
             rest == SumRat(val, S \ {i})
         IN  [n |-> val[i].n * rest.d + rest.n * val[i].d, d |-> val[i].d * rest.d]

\* AVG(val) over the rows in S, which is not empty.
AVG(val, S) == LET sum == SumRat(val, S) IN Frac(sum.n, sum.d * Cardinality(S))

\* NTILE(n) with the larger buckets last.
NTILE_larger_last(n, k, size) ==
    LET small == size \div n
        nsmall == n - (size % n)
    IN  IF small > 0 /\ k <= nsmall * small THEN ((k - 1) \div small) + 1
        ELSE IF small > 0 THEN nsmall + ((k - nsmall * small - 1) \div (small + 1)) + 1
        ELSE n - size + k

\* NTILE(n) of the row at position k (from 1) of a partition of `size` rows:
\* the first size % n buckets hold one row more than the others.
NTILE(n, k, size) ==
    LET small == size \div n
        large == small + 1
        nlarge == size % n
    IN  IF k <= nlarge * large THEN ((k - 1) \div large) + 1
        ELSE nlarge + ((k - nlarge * large - 1) \div small) + 1

\* NTILE(4) OVER (PARTITION BY part ORDER BY key) for row i, with part and
\* key the two columns as functions of the row number.
Quartile(peers, part, key, i) ==
    LET cohort == {j \in DOMAIN part : part[j] = part[i]}
        before == {j \in cohort :
                      \/ LessRat(key[j], key[i])
                      \/ /\ EqRat(key[j], key[i])
                         /\ IF peers = "asc" THEN j < i ELSE j > i}
    IN  NTILE(4, Cardinality(before) + 1, Cardinality(cohort))

\* The quartiles of the outlier filter: WHERE Quartile IN (2, 3).
InterQuartile == {2, 3}

\* strftime('%w', Date) and strftime('%m', Date) for the dates the model
\* uses; NULL for a text that is no date.
strftime_w(date) ==
    CASE date = "2024-07-05" -> Str("5")
      [] date = "2024-07-06" -> Str("6")
      [] date = "2024-08-02" -> Str("5")
      [] OTHER -> None

strftime_m(date) ==
    CASE date = "2024-07-05" -> Str("07")
      [] date = "2024-07-06" -> Str("07")
      [] date = "2024-08-02" -> Str("08")
      [] OTHER -> None

\* The CASE expressions that name the day, the month and the quarter.
day_of_week(w) ==
    CASE w = Str("0") -> Str("Sunday")
      [] w = Str("1") -> Str("Monday")
      [] w = Str("2") -> Str("Tuesday")
      [] w = Str("3") -> Str("Wednesday")
      [] w = Str("4") -> Str("Thursday")
      [] w = Str("5") -> Str("Friday")
      [] w = Str("6") -> Str("Saturday")
      [] OTHER -> None

month(m) ==
    CASE m = Str("07") -> Str("July")
      [] m = Str("08") -> Str("August")
      [] OTHER -> None

quarter(m) ==
    CASE m \in {Str("07"), Str("08"), Str("09")} -> Str("Quarter3")
      [] OTHER -> None

\* One column of HotelPrice, as a function of the row number.
Column(hp, c) == [i \in DOMAIN hp |-> hp[i][c]]

Reals(hp, c) == [i \in DOMAIN hp |-> Rat(hp[i][c])]

\* The by-date SELECT with the quartiles taken inside each Date.
by_date_rows_ranked_inside_date(peers, hp) ==
    LET kept == {i \in DOMAIN hp :
                    Quartile(peers, Column(hp, "Date"), Reals(hp, "Price"), i)
                        \in InterQuartile}
    IN  {[Date |-> date,
          AveragePrice |-> AVG(Reals(hp, "Price"), {i \in kept : hp[i].Date = date}),
          City |-> hp[CHOOSE i \in kept : hp[i].Date = date].City] :
            date \in {hp[i].Date : i \in kept}}

\* The SELECT of create_avg_hotel_room_price_by_date_table: quartiles by
\* Price inside each Review, the rows of quartile 2 and 3 grouped by Date.
\* City is a bare column: the value of some row of the group.
ByDateRows(peers, hp) ==
    LET kept == {i \in DOMAIN hp :
                    Quartile(peers, Column(hp, "Review"), Reals(hp, "Price"), i)
                        \in InterQuartile}
    IN  {[Date |-> date,
          AveragePrice |-> AVG(Reals(hp, "Price"), {i \in kept : hp[i].Date = date}),
          City |-> hp[CHOOSE i \in kept : hp[i].Date = date].City] :
            date \in {hp[i].Date : i \in kept}}

\* The by-review SELECT with a row for every stored Review, 0 standing for
\* the average of a Review without a row in quartile 2 or 3.
by_review_rows_for_every_key(peers, hp) ==
    LET kept == {i \in DOMAIN hp :
                    Quartile(peers, Column(hp, "Review"), Reals(hp, "Price"), i)
                        \in InterQuartile}
    IN  {[Review |-> review,
          AveragePrice |-> IF {i \in kept : hp[i].Review = review} = {} THEN Frac(0, 1)
                           ELSE AVG(Reals(hp, "Price"), {i \in kept : hp[i].Review = review})] :
            review \in {hp[i].Review : i \in DOMAIN hp}}

\* The SELECT of create_avg_room_price_by_review_table.
ByReviewRows(peers, hp) ==
    LET kept == {i \in DOMAIN hp :
                    Quartile(peers, Column(hp, "Review"), Reals(hp, "Price"), i)
                        \in InterQuartile}
    IN  {[Review |-> review,
          AveragePrice |-> AVG(Reals(hp, "Price"), {i \in kept : hp[i].Review = review})] :
            review \in {hp[i].Review : i \in kept}}

\* The SELECT of create_avg_hotel_price_by_dow_table.
ByDayOfWeekRows(peers, hp) ==
    LET w == [i \in DOMAIN hp |-> strftime_w(hp[i].Date.v)]
        kept == {i \in DOMAIN hp :
                    Quartile(peers, w, Reals(hp, "Price"), i) \in InterQuartile}
    IN  {[DayOfWeek |-> day,
          AveragePrice |-> AVG(Reals(hp, "Price"), {i \in kept : day_of_week(w[i]) = day})] :
            day \in {day_of_week(w[i]) : i \in kept}}

\* The SELECT of create_avg_hotel_price_by_month_table.
ByMonthRows(peers, hp) ==
    LET m == [i \in DOMAIN hp |-> strftime_m(hp[i].Date.v)]
        kept == {i \in DOMAIN hp :
                    Quartile(peers, m, Reals(hp, "Price"), i) \in InterQuartile}
    IN  {[Month |-> name,
          AveragePrice |-> AVG(Reals(hp, "Price"), {i \in kept : month(m[i]) = name}),
          Quarter |-> quarter(m[CHOOSE i \in kept : month(m[i]) = name])] :
            name \in {month(m[i]) : i \in kept}}

\* The same with the quartiles of every column taken by Price.
iqm_ranked_by_price(peers, hp, c, place) ==
    LET kept == {i \in DOMAIN hp :
                    /\ hp[i].Location = place
                    /\ Quartile(peers, Column(hp, "Location"), Reals(hp, "Price"), i)
                           \in InterQuartile}
    IN  IF kept = {} THEN Frac(0, 1) ELSE AVG(Reals(hp, c), kept)

\* COALESCE(AVG(CASE WHEN quartile IN (2, 3) THEN col END), 0) over the rows
\* of one Location, the quartiles taken by the column itself.
CoalescedIQM(peers, hp, c, place) ==
    LET kept == {i \in DOMAIN hp :
                    /\ hp[i].Location = place
                    /\ Quartile(peers, Column(hp, "Location"), Reals(hp, c), i)
                           \in InterQuartile}
    IN  IF kept = {} THEN Frac(0, 1) ELSE AVG(Reals(hp, c), kept)

\* The SELECT of create_avg_room_price_by_location.
ByLocationRows(peers, hp) ==
    {[Location |-> place,
      AveragePrice |-> CoalescedIQM(peers, hp, "Price", place),
      AverageRating |-> CoalescedIQM(peers, hp, "Review", place),
      AveragePricePerReview |-> CoalescedIQM(peers, hp, "Price/Review", place)] :
        place \in {hp[i].Location : i \in DOMAIN hp}}

\* One aggregate run on database d: CREATE TABLE IF NOT EXISTS, then DELETE
\* and INSERT ... SELECT in one transaction.  Without the HotelPrice table
\* the INSERT raises and the table stays as it was.
Recompute(d, name, rows) ==
    IF "HotelPrice" \in d.tables
    THEN [d EXCEPT !.tables = @ \cup {name}, ![name] = rows]
    ELSE [d EXCEPT !.tables = @ \cup {name}]

\* The by-date run without its DELETE.
by_date_without_delete(d) ==
    Recompute(d, "AverageRoomPriceByDateTable",
              d.AverageRoomPriceByDateTable \cup ByDateRows(d.peers, d.HotelPrice))

create_avg_hotel_room_price_by_date_table(d) ==
    Recompute(d, "AverageRoomPriceByDateTable", ByDateRows(d.peers, d.HotelPrice))

create_avg_room_price_by_review_table(d) ==
    Recompute(d, "AverageHotelRoomPriceByReview", ByReviewRows(d.peers, d.HotelPrice))

create_avg_hotel_price_by_dow_table(d) ==
    Recompute(d, "AverageHotelRoomPriceByDayOfWeek", ByDayOfWeekRows(d.peers, d.HotelPrice))

create_avg_hotel_price_by_month_table(d) ==
    Recompute(d, "AverageHotelRoomPriceByMonth", ByMonthRows(d.peers, d.HotelPrice))

create_avg_room_price_by_location(d) ==
    Recompute(d, "AverageHotelRoomPriceByLocation", ByLocationRows(d.peers, d.HotelPrice))

\* The columns of HotelPrice that to_sql fills, all declared NOT NULL.
HotelPriceColumns ==
    {"Hotel", "Price", "Review", "Location", "Price/Review", "City", "Date", "AsOf"}

\* A row of the DataFrame holds a missing value in one of these columns
\* (AsOf is the timestamp the assembler stamps, which is never missing).
HasNull(row) == \E c \in HotelPriceColumns \ {"AsOf"} : row[c].t = "None"

\* to_sql with if_exists='replace': the stored rows are dropped first.
to_sql_replace(hp, df) ==
    [i \in DOMAIN df |->
        ("ID" :> i) @@ [c \in HotelPriceColumns |-> df[i][c]]]

\* df_filtered.to_sql('HotelPrice', if_exists='append', index=False): the
\* rows of the DataFrame after the stored ones, ID counting on.
to_sql(hp, df) ==
    hp \o [i \in DOMAIN df |->
             ("ID" :> Len(hp) + i) @@ [c \in HotelPriceColumns |-> df[i][c]]]

\* The same for a HotelPrice table whose Location may be null.
raises_unless_location(df) ==
    \E i \in DOMAIN df :
        \E c \in HotelPriceColumns \ {"AsOf", "Location"} : df[i][c].t = "None"

\* The INSERT of to_sql fails on a NOT NULL column: nothing is stored and the
\* exception leaves migrate_data_to_sqlite before any aggregate run.
RaisesIntegrityError(df) == \E i \in DOMAIN df : HasNull(df[i])

\* migrate_data_to_sqlite(df_filtered, db): the database it leaves behind.
migrate_data_to_sqlite(d, df) ==
    LET created == [d EXCEPT !.tables = @ \cup {"HotelPrice"}] IN
    IF RaisesIntegrityError(df) THEN created
    ELSE LET saved == [created EXCEPT !.HotelPrice = to_sql(@, df)] IN
         create_avg_room_price_by_location(
         create_avg_hotel_price_by_month_table(
         create_avg_hotel_price_by_dow_table(
         create_avg_room_price_by_review_table(
         create_avg_hotel_room_price_by_date_table(saved)))))

(***************************************************************************)
(* Bounds and inputs                                                       *)
(***************************************************************************)

\* The page size: the step of range(0, total_page_num, 100).
PageSize == 100

\* The largest number of fan-out pages a search of the model has.
MaxPages == 3

\* The values datetime.datetime.now() may return.
Times == {1, 2}

\* One raw listing as the provider returns it.
Listing(name, score, amount, place, currency) ==
    Dict([displayName |-> Dict([text |-> Str(name)]),
          basicPropertyData |-> Dict([reviewScore |-> Dict([score |-> Num(score)])]),
          blocks |-> List(<<Dict([finalPrice |->
                        Dict([amount |-> Num(amount), currency |-> Str(currency)])])>>),
          location |-> Dict([displayLocation |-> Str(place)])])

HotelA == Listing("Hotel A", 4, 10, "Osaka", "USD")
HotelB == Listing("Hotel B", 2, 20, "Osaka", "USD")
HotelFree == Listing("Hotel C", 4, 0, "Osaka", "USD")
HotelYen == Listing("Hotel A", 4, 10, "Osaka", "JPY")
HotelDear == Listing("Hotel A", 2, 20, "Kyoto", "USD")

\* A response body holding a `search` object.
Wrap(search) == Dict([data |-> Dict([searchQueries |-> Dict([search |-> Dict(search)])])])

Crumb(name) == Dict([name |-> Str(name)])

\* The `search` object of a page-0 response that echoes the base request and
\* reports nbResultsTotal = t.
Echo(t) ==
    [pagination |-> Dict([nbResultsTotal |-> t]),
     breadcrumbs |-> List(<<Crumb("Japan"), Crumb("Osaka")>>),
     results |-> List(<<HotelA>>),
     appliedFilterOptions |-> List(<<Dict([urlId |-> Str("ht_id=204")])>>),
     flexibleDatesConfig |-> Dict([dateRangeCalendar |->
         Dict([checkin |-> List(<<Str("2024-07-05")>>),
               checkout |-> List(<<Str("2024-07-06")>>)])]),
     searchMeta |-> Dict([nbAdults |-> Num(1), nbChildren |-> Num(0), nbRooms |-> Num(1)])]

\* Echo(t) with one field of the echo changed.
Calendar(checkin, checkout) ==
    Dict([dateRangeCalendar |-> Dict([checkin |-> List(<<Str(checkin)>>),
                                      checkout |-> List(<<Str(checkout)>>)])])

Meta(adults, children, rooms) ==
    Dict([nbAdults |-> Num(adults), nbChildren |-> Num(children), nbRooms |-> Num(rooms)])

Variants(t) ==
    { [Echo(t) EXCEPT !.breadcrumbs = List(<<Crumb("Japan"), Crumb("Kyoto")>>)],
      [Echo(t) EXCEPT !.breadcrumbs = List(<<Crumb("Osaka")>>)],
      [Echo(t) EXCEPT !.flexibleDatesConfig = Calendar("2024-07-06", "2024-07-06")],
      [Echo(t) EXCEPT !.flexibleDatesConfig = Calendar("2024-07-05", "2024-07-07")],
      [Echo(t) EXCEPT !.searchMeta = Meta(2, 0, 1)],
      [Echo(t) EXCEPT !.searchMeta = Meta(1, 1, 1)],
      [Echo(t) EXCEPT !.searchMeta = Meta(1, 0, 2)],
      [Echo(t) EXCEPT !.results = List(<<HotelYen>>)],
      [Echo(t) EXCEPT !.appliedFilterOptions = List(<<>>)] }

\* Echo(t) with breadcrumbs that hold a null or missing name, two spellings
\* of one name, or no entry at all.
BreadcrumbVariants(t) ==
    { [Echo(t) EXCEPT !.breadcrumbs = List(crumbs)] :
        crumbs \in { <<Dict([name |-> None]), Crumb("Japan"), Crumb("Osaka")>>,
                     <<Dict(<<>>), Crumb("JAPAN"), Crumb("Japan"), Crumb("Osaka")>>,
                     <<Crumb("Japan"), Crumb("OSAKA"), Crumb("Osaka")>>,
                     <<Crumb("OSAKA"), Crumb("Osaka")>>,
                     <<>> } }

\* Echo(t) without one of its keys.
Without(search, key) == [k \in DOMAIN search \ {key} |-> search[k]]

\* HotelA with one of its top-level keys replaced or removed.
With(listing, key, value) == Dict([listing.v EXCEPT ![key] = value])
Lacking(listing, key) == Dict(Without(listing.v, key))

\* Echo(t) with results that carry two currencies, or no block-level price:
\* no result, a result without blocks, with null blocks, with no block, or
\* with a block that has no finalPrice.
ResultVariants(t) ==
    { [Echo(t) EXCEPT !.results = List(results)] :
        results \in { <<HotelA, HotelYen>>,
                      <<HotelYen, HotelA>>,
                      <<>>,
                      <<Lacking(HotelA, "blocks")>>,
                      <<With(HotelA, "blocks", None)>>,
                      <<With(HotelA, "blocks", List(<<>>))>>,
                      <<With(HotelA, "blocks", List(<<Dict(<<>>)>>))>> } }

\* Echo(t) with other applied-filter options, or none.
FilterVariants(t) ==
    { Without(Echo(t), "appliedFilterOptions"),
      [Echo(t) EXCEPT !.appliedFilterOptions = None],
      [Echo(t) EXCEPT !.appliedFilterOptions =
          List(<<Dict([urlId |-> Str("ht_id=201")]), Dict([urlId |-> Str("ht_id=204")])>>)],
      [Echo(t) EXCEPT !.appliedFilterOptions =
          List(<<Dict([urlId |-> Str("ht_id=201")]), Dict([name |-> Str("Hotels")])>>)] }

\* The total result counts a page-0 response of the model reports.
Totals == {t \in 1..(MaxPages * PageSize) : t % PageSize \in {0, 1, 50}}

Page0Searches ==
    {Echo(Num(t)) : t \in Totals}
    \cup {Echo(Num(0)), Echo(None), Echo(Str("150")), Without(Echo(Num(150)), "pagination")}
    \cup Variants(Num(150)) \cup Variants(Num(0))
    \cup BreadcrumbVariants(Num(150))
    \cup ResultVariants(Num(150)) \cup FilterVariants(Num(150))
    \cup {Without(Echo(Num(150)), "breadcrumbs"), Without(Echo(Num(150)), "searchMeta"),
          Without([Echo(Num(150)) EXCEPT !.results = List(<<HotelYen>>)], "searchMeta")}
    \cup {Without(Echo(Num(150)), "results"),
          Without(Echo(Num(150)), "flexibleDatesConfig"),
          [Echo(Num(150)) EXCEPT !.flexibleDatesConfig = Dict(<<>>)]}
    \cup {Without(search, "pagination") : search \in Variants(Num(150))}
    \cup {Without(Echo(Num(0)), "breadcrumbs")}

\* What the transport may hand to the page-0 request.
Page0Responses ==
    {Response(200, Wrap(search)) : search \in Page0Searches}
    \cup {Response(200, NotJson), Response(500, NotJson), Response(200, Dict(<<>>)),
          Failed("ClientError")}

\* The listings a fan-out page of the model may hold.
PageResults == {<<>>, <<HotelA, HotelB>>, <<HotelFree>>, <<HotelDear>>}

\* What the transport may hand to one fan-out request.
PageResponses ==
    {Response(200, Wrap([results |-> List(r)])) : r \in PageResults}
    \cup {Response(200, NotJson), Response(500, NotJson), Response(200, Dict(<<>>)),
          Failed("ClientError")}

BaseRequest ==
    [city |-> Str("Osaka"), country |-> Str("Japan"),
     check_in |-> Str("2024-07-05"), check_out |-> Str("2024-07-06"),
     group_adults |-> Num(1), num_rooms |-> Num(1), group_children |-> Num(0),
     selected_currency |-> Str("USD"), scrape_only_hotel |-> Bool(TRUE)]

Requests ==
    { BaseRequest,
      [BaseRequest EXCEPT !.selected_currency = Str("JPY")],
      [BaseRequest EXCEPT !.scrape_only_hotel = Bool(FALSE)],
      [BaseRequest EXCEPT !.city = Str("osaka")],
      [BaseRequest EXCEPT !.country = Str("japan")],
      [BaseRequest EXCEPT !.check_in = Str("")] }

(***************************************************************************)
(* scrape_graphql as a state machine: one action per stretch of code       *)
(* between two suspension points of the event loop                         *)
(***************************************************************************)

NoResponse == [kind |-> "none"]
Pending == [t |-> "pending"]

\* _get_response_data given what the transport returned: the decoded body, {}
\* when the status is not 200 or the body cannot be decoded.
_get_response_data(response) ==
    IF response.kind = "error" THEN Exc(response.exc)
    ELSE IF response.status = 200
         THEN LET d == Json(response) IN IF IsExc(d) THEN Dict(<<>>) ELSE d
         ELSE Dict(<<>>)

\* range(0, total_page_num + 1, 100)
OffsetsInclusive(total_page_num) ==
    {o \in 0..total_page_num : o % PageSize = 0}

\* range(0, total_page_num, 100)
Offsets(total_page_num) ==
    {o \in 0..(total_page_num - 1) : o % PageSize = 0}

\* The tasks _fetch_hotel_data hands to asyncio.gather, in offset order.
NewTasks(total_page_num) ==
    [i \in 1..Cardinality(Offsets(total_page_num)) |->
        [offset |-> (i - 1) * PageSize, st |-> "created", sent |-> 0,
         response |-> NoResponse, result |-> Pending]]

\* The loop of _scrape_data_from_endpoint over the gathered results from i on.
RECURSIVE ExtractAll(_, _, _)
ExtractAll(dfs, results, i) ==
    IF i > Len(results) THEN dfs
    ELSE IF Truthy(results[i])
         THEN ExtractAll(extract_hotel_data(dfs, results[i].v), results, i + 1)
         ELSE ExtractAll(dfs, results, i + 1)

_scrape_data_from_endpoint(results) == ExtractAll(<<>>, results, 1)

\* Lines 84-89 of scrape_graphql: the table made of the extracted batches.
Assemble(r, dfs, now) ==
    IF dfs # <<>>
    THEN transform_data_in_df(r.check_in, r.city, concat_df_list(dfs), now)
    ELSE <<>>

Init ==
    /\ req \in Requests
    /\ pc = "start"
    /\ data = Dict(<<>>)
    /\ total = Num(0)
    /\ session = "none"
    /\ tasks = <<>>
    /\ outcome = "none"
    /\ table = <<>>
    /\ posts = 0
    /\ raw = <<>>
    /\ df_list = <<>>
    /\ out = <<>>
    /\ db = EmptyDatabase("asc")
    /\ overtaken = FALSE

Finish(how, result) ==
    /\ pc' = "done"
    /\ outcome' = how
    /\ table' = result

\* scrape_graphql up to its first await: the inputs are validated and the
\* page-0 request is sent.
Start ==
    /\ pc = "start"
    /\ IF _validate_inputs(req)
       THEN /\ pc' = "page0"
            /\ posts' = posts + 1
            /\ UNCHANGED <<outcome, table>>
       ELSE /\ Finish("table", <<>>)
            /\ UNCHANGED posts
    /\ UNCHANGED <<req, data, total, session, tasks, overtaken, pureVars>>

\* _fetch_hotel_data up to `await asyncio.gather`: the session is opened and
\* one task per offset is created; a total that is no integer makes range()
\* raise inside the `async with`, which closes the session.
LaunchFanOut(total_page_num) ==
    IF total_page_num.t = "num"
    THEN /\ session' = "open"
         /\ tasks' = NewTasks(total_page_num.v)
         /\ pc' = "gather"
         /\ UNCHANGED <<outcome, table>>
    ELSE /\ session' = "closed"
         /\ tasks' = <<>>
         /\ Finish("raise", <<>>)

\* The page-0 response arrives: lines 73-82 of scrape_graphql, up to the
\* await of the gathered fan-out.
Page0Resolve(response) ==
    /\ pc = "page0"
    /\ LET d == _get_response_data(response) IN
       IF IsExc(d)
       THEN /\ Finish("raise", <<>>)
            /\ UNCHANGED <<data, total, session, tasks>>
       ELSE /\ data' = d
            /\ LET info == check_info(d, req) IN
               IF info.kind # "ok"
               THEN /\ Finish(info.kind, <<>>)
                    /\ UNCHANGED <<total, session, tasks>>
               ELSE /\ total' = info.total
                    /\ IF ~Truthy(info.total)
                       THEN /\ Finish("table", <<>>)
                            /\ UNCHANGED <<session, tasks>>
                       ELSE LaunchFanOut(info.total)
    /\ UNCHANGED <<req, posts, overtaken, pureVars>>

\* The first step of task i: fetch_hotel_data calls session.post.  The event
\* loop runs the first steps of the gathered tasks in the order of creation.
FetchStart(i) ==
    /\ pc = "gather"
    /\ tasks[i].st = "created"
    /\ \A j \in 1..(i - 1) : tasks[j].st # "created"
    /\ tasks' = [tasks EXCEPT ![i].st = "inflight", ![i].sent = @ + 1]
    /\ UNCHANGED <<req, pc, data, total, session, outcome, table, posts, overtaken, pureVars>>

\* A fetch that sends its request once more when the first one failed.
fetch_with_retry(i, response) ==
    /\ tasks[i].st = "inflight"
    /\ session = "closed" => response.kind = "error"
    /\ IF response.kind = "error" /\ tasks[i].sent < 2 /\ session # "closed"
       THEN /\ tasks' = [tasks EXCEPT ![i].sent = @ + 1]
            /\ UNCHANGED overtaken
       ELSE /\ tasks' = [tasks EXCEPT ![i].st = "done",
                                      ![i].response = response,
                                      ![i].result = fetch_hotel_data(response)]
            /\ overtaken' = (overtaken \/ \E j \in 1..(i - 1) : tasks[j].st # "done")
    /\ UNCHANGED <<req, pc, data, total, session, outcome, table, posts, pureVars>>

\* The request of task i resolves: the rest of fetch_hotel_data.  Once the
\* session is closed a request still in flight can only fail.
FetchResolve(i, response) ==
    /\ tasks[i].st = "inflight"
    /\ session = "closed" => response.kind = "error"
    /\ tasks' = [tasks EXCEPT ![i].st = "done",
                              ![i].response = response,
                              ![i].result = fetch_hotel_data(response)]
    /\ overtaken' = (overtaken \/ \E j \in 1..(i - 1) : tasks[j].st # "done")
    /\ UNCHANGED <<req, pc, data, total, session, outcome, table, posts, pureVars>>

\* The results in the reverse of the order of the awaitables.
gather_reversed(awaitables) ==
    [i \in DOMAIN awaitables |-> awaitables[Len(awaitables) + 1 - i].result]

\* The list asyncio.gather returns: the results in the order of the
\* awaitables it was given, whatever the order of their completion.
gather(awaitables) == [i \in DOMAIN awaitables |-> awaitables[i].result]

\* `await asyncio.gather(*tasks)` returns: with the results in task order
\* once every task is done, or by raising as soon as one task has raised (the
\* other tasks are left running).  Leaving the `async with` closes the
\* session; then lines 111-115 and 84-89 run.
GatherReturn(now) ==
    /\ pc = "gather"
    /\ \A i \in DOMAIN tasks : tasks[i].st # "created"
    /\ IF \E i \in DOMAIN tasks : tasks[i].st = "done" /\ IsExc(tasks[i].result)
       THEN Finish("raise", <<>>)
       ELSE /\ \A i \in DOMAIN tasks : tasks[i].st = "done"
            /\ LET results == gather(tasks)
               IN  Finish("table", Assemble(req, _scrape_data_from_endpoint(results), now))
    /\ session' = "closed"
    /\ UNCHANGED <<req, data, total, tasks, posts, overtaken, pureVars>>

Next ==
    \/ Start
    \/ \E response \in Page0Responses : Page0Resolve(response)
    \/ \E i \in DOMAIN tasks : FetchStart(i)
    \/ \E i \in DOMAIN tasks : \E response \in PageResponses : FetchResolve(i, response)
    \/ \E now \in Times : GatherReturn(now)

Spec == Init /\ [][Next]_vars

\* The states in which `await asyncio.gather(*tasks)` can return: every task
\* has taken its first step, and a task has raised or all tasks are done.
GatherReady ==
    /\ pc = "gather"
    /\ \A i \in DOMAIN tasks : tasks[i].st # "created"
    /\ \/ \E i \in DOMAIN tasks : tasks[i].st = "done" /\ IsExc(tasks[i].result)
       \/ \A i \in DOMAIN tasks : tasks[i].st = "done"

\* The search under the assumptions that the event loop runs a coroutine
\* that is ready (Start, FetchStart, GatherReturn) and that every request
\* sent is resolved, by a response or by an exception (Page0Resolve,
\* FetchResolve).  Each is weak fairness of the action.  GatherReturn is
\* enabled exactly in the states of GatherReady and its steps change pc, so
\* its weak fairness is written out with GatherReady as the enabling
\* condition.
SpecLive ==
    /\ Init /\ [][Next]_vars
    /\ WF_vars(Start)
    /\ WF_vars(\E response \in Page0Responses : Page0Resolve(response))
    /\ WF_vars(\E i \in DOMAIN tasks : FetchStart(i))
    /\ WF_vars(\E i \in DOMAIN tasks : \E response \in PageResponses : FetchResolve(i, response))
    /\ ([]<>(~GatherReady) \/ []<><<\E now \in Times : GatherReturn(now)>>_vars)

(***************************************************************************)
(* The listing extractor on its own: one call of extract_hotel_data on a   *)
(* collection that may already hold batches                                *)
(***************************************************************************)

\* The longest raw-listing list handed to the extractor.
MaxListings == 2

RawListings ==
    { HotelA, HotelB,
      With(HotelA, "displayName", None), Lacking(HotelA, "displayName"),
      With(HotelA, "displayName", Dict(<<>>)),
      With(HotelA, "displayName", Dict([text |-> None])),
      With(HotelA, "basicPropertyData", None), Lacking(HotelA, "basicPropertyData"),
      With(HotelA, "basicPropertyData", Dict([reviewScore |-> None])),
      With(HotelA, "basicPropertyData", Dict(<<>>)),
      With(HotelA, "basicPropertyData", Dict([reviewScore |-> Dict([score |-> None])])),
      With(HotelA, "blocks", None), Lacking(HotelA, "blocks"),
      With(HotelA, "blocks", List(<<>>)),
      With(HotelA, "blocks", List(<<Dict(<<>>)>>)),
      With(HotelA, "blocks", List(<<Dict([finalPrice |-> None])>>)),
      With(HotelA, "blocks", List(<<Dict([finalPrice |-> Dict([currency |-> Str("USD")])])>>)),
      With(HotelA, "location", None), Lacking(HotelA, "location"),
      With(HotelA, "location", Dict([displayLocation |-> None])),
      Dict([displayName |-> None, basicPropertyData |-> None,
            blocks |-> None, location |-> None]) }

\* The collections the extractor is handed: empty, or holding earlier batches.
Collections == {<<>>, extract_hotel_data(<<>>, <<HotelB>>)}

InitExtract ==
    /\ req = BaseRequest
    /\ pc = "extract"
    /\ data = Dict(<<>>)
    /\ total = Num(0)
    /\ session = "none"
    /\ tasks = <<>>
    /\ outcome = "none"
    /\ table = <<>>
    /\ posts = 0
    /\ raw \in UNION {[1..n -> RawListings] : n \in 0..MaxListings}
    /\ df_list \in Collections
    /\ out = <<>>
    /\ db = EmptyDatabase("asc")
    /\ overtaken = FALSE

\* extract_hotel_data(df_list, hotel_data_list)
Extract ==
    /\ pc = "extract"
    /\ pc' = "extracted"
    /\ df_list' = extract_hotel_data(df_list, raw)
    /\ UNCHANGED <<req, data, total, session, tasks, outcome, table, posts, raw, out, db,
                   overtaken>>

SpecExtract == InitExtract /\ [][Extract]_vars

(***************************************************************************)
(* The table assembler on its own: one call of transform_data_in_df        *)
(***************************************************************************)

\* The largest number of rows of a DataFrame handed to the assembler.
MaxRows == 3

Row(hotel, price, review, place) ==
    [Hotel |-> hotel, Price |-> price, Review |-> review, Location |-> place]

\* The rows a DataFrame of the model is made of: valid rows, rows sharing a
\* Hotel, and rows with a missing, zero or non-numeric cell.
Rows ==
    { Row(Str("A"), Num(10), Num(2), Str("Osaka")),
      Row(Str("B"), Num(20), Num(4), Str("Osaka")),
      Row(Str("C"), Num(10), Num(4), Str("Kyoto")),
      Row(Str("A"), Num(20), Num(2), Str("Kyoto")),
      Row(Str("B"), Num(10), Num(4), None),
      Row(Str("A"), Num(0), Num(2), Str("Osaka")),
      Row(Str("B"), Num(10), Num(0), Str("Osaka")),
      Row(None, Num(10), Num(2), Str("Osaka")),
      Row(Str("A"), None, Num(2), Str("Osaka")),
      Row(Str("B"), Num(10), None, Str("Osaka")),
      Row(Str("A"), Str("abc"), Num(2), Str("Osaka")),
      Row(Str("C"), Str("20"), Num(4), Str("Osaka")),
      Row(Str("C"), Num(20), Str("n/a"), Str("Osaka")) }

\* A DataFrame with the given rows, indexed by position.
DataFrame(rows) == [i \in DOMAIN rows |-> ("idx" :> i) @@ rows[i]]

InitTransform ==
    /\ req = BaseRequest
    /\ pc = "transform"
    /\ data = Dict(<<>>)
    /\ total = Num(0)
    /\ session = "none"
    /\ tasks = <<>>
    /\ outcome = "none"
    /\ table = <<>>
    /\ posts = 0
    /\ raw \in {DataFrame(rows) : rows \in UNION {[1..n -> Rows] : n \in 0..MaxRows}}
    /\ df_list = <<>>
    /\ out = <<>>
    /\ db = EmptyDatabase("asc")
    /\ overtaken = FALSE

\* transform_data_in_df(self.check_in, self.city, df)
Transform(now) ==
    /\ pc = "transform"
    /\ pc' = "transformed"
    /\ out' = transform_data_in_df(req.check_in, req.city, raw, now)
    /\ UNCHANGED <<req, data, total, session, tasks, outcome, table, posts, raw, df_list, db,
                   overtaken>>

NextTransform == \E now \in Times : Transform(now)

SpecTransform == InitTransform /\ [][NextTransform]_vars

(***************************************************************************)
(* The store on its own: migrations of assembled tables and aggregate runs *)
(***************************************************************************)

\* The largest number of rows HotelPrice holds.
MaxStored == 5

\* The check-in dates of the assembled tables.
Dates == {"2024-07-05", "2024-07-06", "2024-08-02"}

\* The table the assembler returns for a search of Osaka on `date`.
Assembled(date, rows) == transform_data_in_df(Str(date), Str("Osaka"), DataFrame(rows), 1)

\* The tables handed to migrate_data_to_sqlite: the empty DataFrame, tables
\* that share a date, a Review or a Price, and a table with a null Location.
HotelTables ==
    { <<>>,
      Assembled("2024-07-05", <<Row(Str("A"), Num(10), Num(2), Str("Osaka")),
                                Row(Str("B"), Num(20), Num(2), Str("Osaka"))>>),
      Assembled("2024-07-05", <<Row(Str("C"), Num(30), Num(2), Str("Osaka")),
                                Row(Str("D"), Num(40), Num(2), Str("Kyoto"))>>),
      Assembled("2024-07-06", <<Row(Str("A"), Num(20), Num(2), Str("Osaka")),
                                Row(Str("C"), Num(20), Num(4), Str("Osaka"))>>),
      Assembled("2024-07-06", <<Row(Str("A"), Num(40), Num(2), Str("Kyoto")),
                                Row(Str("B"), Num(10), Num(4), Str("Kyoto"))>>),
      Assembled("2024-08-02", <<Row(Str("A"), Num(10), Num(4), Str("Kyoto"))>>),
      Assembled("2024-07-05", <<Row(Str("B"), Num(20), Num(2), None)>>),
      Assembled("2024-07-06", <<Row(Str("E"), Num(30), Num(2), Str("Osaka")),
                                Row(Str("B"), Num(20), Num(2), None)>>),
      Assembled("2024-08-02", <<Row(Str("F"), Num(12), Num(2), Str("Kyoto")),
                                Row(Str("G"), Num(15), Num(2), Str("Kyoto"))>>) }

InitStore ==
    /\ req = BaseRequest
    /\ pc = "store"
    /\ data = Dict(<<>>)
    /\ total = Num(0)
    /\ session = "none"
    /\ tasks = <<>>
    /\ outcome = "none"
    /\ table = <<>>
    /\ posts = 0
    /\ raw = <<>>
    /\ df_list = <<>>
    /\ out = <<>>
    /\ db \in {EmptyDatabase(peers) : peers \in {"asc", "desc"}}
    /\ overtaken = FALSE

\* One call of a function of migrate_to_sqlite.py that leaves database d
\* behind and has raised or not; `df` is its DataFrame argument, if any.
Call(d, raised, df) ==
    /\ pc = "store"
    /\ db' = d
    /\ outcome' = IF raised THEN "raise" ELSE "ok"
    /\ raw' = df
    /\ UNCHANGED <<req, pc, data, total, session, tasks, table, posts, df_list, out,
                   overtaken>>

\* migrate_data_to_sqlite(df_filtered, db)
Migrate(df) ==
    /\ Len(db.HotelPrice) + Len(df) <= MaxStored
    /\ Call(migrate_data_to_sqlite(db, df), RaisesIntegrityError(df), df)

\* The five aggregate functions called on their own.
NoHotelPrice == "HotelPrice" \notin db.tables

AggregateByDate == Call(create_avg_hotel_room_price_by_date_table(db), NoHotelPrice, <<>>)

AggregateByReview == Call(create_avg_room_price_by_review_table(db), NoHotelPrice, <<>>)

AggregateByDayOfWeek == Call(create_avg_hotel_price_by_dow_table(db), NoHotelPrice, <<>>)

AggregateByMonth == Call(create_avg_hotel_price_by_month_table(db), NoHotelPrice, <<>>)

AggregateByLocation == Call(create_avg_room_price_by_location(db), NoHotelPrice, <<>>)

NextStore ==
    \/ \E df \in HotelTables : Migrate(df)
    \/ AggregateByDate
    \/ AggregateByReview
    \/ AggregateByDayOfWeek
    \/ AggregateByMonth
    \/ AggregateByLocation

SpecStore == InitStore /\ [][NextStore]_vars

(***************************************************************************)
(* Properties of the search (specification Spec)                           *)
(***************************************************************************)

\* The page-0 response has been handled: check_info has run on self.data.
Validated == pc \in {"gather", "done"} /\ data # Dict(<<>>)

\* The fields of the request that the response echoes.
EchoedFields ==
    {"city", "country", "check_in", "check_out", "group_adults", "group_children",
     "num_rooms", "selected_currency", "scrape_only_hotel"}

\* The fields whose echoed value was extracted and differs from the request.
Differing ==
    {f \in EchoedFields :
        /\ ~IsExc(BookingDetails(data, req)[f])
        /\ ~PyEq(req[f], BookingDetails(data, req)[f])}

\* Every echoed field could be extracted from the response.
EchoComplete == \A f \in EchoedFields : ~IsExc(BookingDetails(data, req)[f])

\* The value the response holds at pagination.nbResultsTotal.
ReportedTotal == Sub(SearchPath(data, "pagination"), "nbResultsTotal")

NoFanOut == tasks = <<>> /\ session = "none"

\* C1 as stated: for every page-0 response, an echoed field that differs from
\* the request makes check_info end the search: no table is returned and no
\* fan-out fetch is issued.
C1_AbortOnAnyMismatch ==
    (Validated /\ Differing # {}) => (outcome \in {"abort", "raise"} /\ NoFanOut)

\* C1 as amended: for every page-0 response that reports a non-zero total
\* result count, an echoed field that differs from the request ends the
\* search without a table and without any fan-out fetch: by the SystemExit of
\* check_info when every echoed field could be extracted, else by the
\* exception of the extraction that failed.
C1_AbortOnMismatchWhenTotalNonZero ==
    (Validated /\ Truthy(_find_total_page_num(data)) /\ Differing # {})
        => /\ outcome \in {"abort", "raise"}
           /\ EchoComplete => outcome = "abort"
           /\ table = <<>>
           /\ NoFanOut

\* The search was aborted although only the echoed currency differs.
C1_Witness ==
    /\ pc = "done"
    /\ outcome = "abort"
    /\ Differing = {"selected_currency"}
    /\ EchoComplete

\* Every fan-out page whose fetch returned listings has the Hotel of each of
\* its valid listings in the returned table.
ListingsReachOutput ==
    \A i \in DOMAIN tasks :
        (tasks[i].st = "done" /\ tasks[i].result.t = "list")
            => \A k \in DOMAIN tasks[i].result.v :
                   LET row == ListingRow(tasks[i].result.v[k]) IN
                   (/\ row.Hotel.t # "None"
                    /\ to_numeric(row.Price).t = "num" /\ to_numeric(row.Price).v # 0
                    /\ to_numeric(row.Review).t = "num" /\ to_numeric(row.Review).v # 0)
                       => \E j \in DOMAIN table : PyEq(table[j].Hotel, row.Hotel)

\* C2 as stated: once the fan-out of a search has been launched, a page fetch
\* that fails contributes no rows and nothing else: the search ends by
\* returning a table that holds the listings of the other pages, and it does
\* not raise.
C2_PageFailureIsIsolated ==
    (pc = "done" /\ tasks # <<>>) => (outcome = "table" /\ ListingsReachOutput)

\* C3 as stated: a fetch that received a non-success status, an undecodable
\* body or a body without data.searchQueries.search.results returns an empty
\* list, after exactly one request.
C3_FetchNeverRaises ==
    \A i \in DOMAIN tasks :
        (/\ tasks[i].st = "done"
         /\ tasks[i].response.kind = "response"
         /\ \/ tasks[i].response.status # 200
            \/ tasks[i].response.body.t = "notjson"
            \/ IsExc(SearchPath(tasks[i].response.body, "results")))
            => (tasks[i].result = List(<<>>) /\ tasks[i].sent = 1)

\* The number of requests the fan-out has sent for offset o.
SentFor(o) ==
    Cardinality({i \in DOMAIN tasks : tasks[i].offset = o /\ tasks[i].sent = 1})

\* C4: for a total result count T > 0 accepted by the page-0 validation, the
\* fan-out has one task for each multiple of 100 below T and for no other
\* offset, no task sends more than one request, and when the fan-out has been
\* gathered each of these offsets has been requested exactly once.
C4_OneFetchPerOffset ==
    (Validated /\ outcome # "abort" /\ total.t = "num" /\ total.v > 0)
        => /\ \A i \in DOMAIN tasks : tasks[i].sent <= 1
           /\ \A o \in 0..((MaxPages + 2) * PageSize) :
                /\ Cardinality({i \in DOMAIN tasks : tasks[i].offset = o})
                       = IF o % PageSize = 0 /\ o < total.v THEN 1 ELSE 0
                /\ pc = "done" =>
                       SentFor(o) = IF o % PageSize = 0 /\ o < total.v THEN 1 ELSE 0

\* A search with T = 150 has ended after fetching offsets 0 and 100 only.
C4_Witness ==
    /\ pc = "done"
    /\ total = Num(150)
    /\ SentFor(0) = 1 /\ SentFor(100) = 1 /\ SentFor(200) = 0

\* C5 as stated: the fan-out's session is open before any of its fetches is
\* issued, is closed when the fan-out has ended, and is closed only when every
\* page fetch has resolved.
C5_SessionScopedToFanOut ==
    /\ \A i \in DOMAIN tasks : tasks[i].st # "created" => session # "none"
    /\ (pc = "done" /\ tasks # <<>>) => session = "closed"
    /\ session = "closed" => \A i \in DOMAIN tasks : tasks[i].st = "done"

\* The rows extracted from the gathered results of the fan-out.
GatheredRows ==
    Flatten(_scrape_data_from_endpoint([i \in DOMAIN tasks |-> tasks[i].result]))

\* A row that assembly removes whatever the other rows are.
Removable(row) ==
    \/ row.Hotel.t = "None"
    \/ row.Price.t # "num" \/ row.Price.v = 0
    \/ row.Review.t # "num" \/ row.Review.v = 0

AllGathered ==
    /\ tasks # <<>>
    /\ \A i \in DOMAIN tasks : tasks[i].st = "done" /\ ~IsExc(tasks[i].result)

\* C6: a search ends by returning an empty table, and neither raises nor
\* aborts, when its page-0 response reports a total of zero, when every page
\* of its fan-out returned no listing, and when every row of its fan-out is
\* one that assembly removes.
C6_EmptyResultIsNormal ==
    (/\ pc = "done"
     /\ \/ Validated /\ ReportedTotal = Num(0)
        \/ AllGathered /\ \A i \in DOMAIN tasks : ~Truthy(tasks[i].result)
        \/ AllGathered /\ \A k \in DOMAIN GatheredRows : Removable(GatheredRows[k]))
        => (outcome = "table" /\ table = <<>>)

\* A search whose pages returned listings, all removed in assembly, has
\* returned the empty table.
C6_Witness ==
    /\ pc = "done"
    /\ outcome = "table"
    /\ table = <<>>
    /\ AllGathered
    /\ GatheredRows # <<>>

\* The number of fan-out requests sent and not yet resolved.
InFlight == Cardinality({i \in DOMAIN tasks : tasks[i].st = "inflight"})

\* ceil(t / PageSize)
PagesOf(t) == (t + PageSize - 1) \div PageSize

\* The fan-out of a search with a validated total has been launched.
FannedOut == Validated /\ total.t = "num" /\ total.v > 0 /\ tasks # <<>>

\* C15 as stated: during the fan-out of a search whose validated total count
\* is T, at most ceil(T/100) - 1 page requests are in flight at the same time.
C15_InFlightAtMostRemainingPages ==
    FannedOut => InFlight <= PagesOf(total.v) - 1

\* C15 as amended: the fan-out of a search whose validated total count is T
\* has ceil(T/100) tasks, the page at offset 0 included, and at most
\* ceil(T/100) page requests are in flight at the same time.
C15_InFlightAtMostAllPages ==
    FannedOut => /\ Len(tasks) = PagesOf(total.v)
                 /\ InFlight <= PagesOf(total.v)

\* A search with T = 250 has three page requests in flight, the one for
\* offset 0 among them.
C15_Witness ==
    /\ pc = "gather"
    /\ total = Num(250)
    /\ InFlight = 3
    /\ \E i \in DOMAIN tasks : tasks[i].offset = 0 /\ tasks[i].st = "inflight"

\* C16 as stated: when the page-0 response lacks the path
\* data.searchQueries.search.pagination.nbResultsTotal, or holds there a
\* value that is no integer, the discovered total is 0 and the search ends by
\* returning an empty table, without raising and without any fan-out.
C16_MistypedTotalIsZero ==
    (Validated /\ pc = "done" /\ (IsExc(ReportedTotal) \/ ReportedTotal.t # "num"))
        => /\ total = Num(0)
           /\ outcome = "table"
           /\ table = <<>>
           /\ NoFanOut

\* check_info has cross-checked the page-0 response: the reported total is
\* truthy.
CrossChecked == Validated /\ Truthy(_find_total_page_num(data))

\* Two names that are equal ignoring letter case.
SameIgnoringCase(a, b) ==
    \/ a = b
    \/ {a, b} \subseteq {"Osaka", "osaka", "OSAKA"}
    \/ {a, b} \subseteq {"Japan", "japan", "JAPAN"}

\* The breadcrumbs of the page-0 response whose non-null name equals `wanted`
\* ignoring case.
Matching(wanted) ==
    LET crumbs == SearchPath(data, "breadcrumbs").v
    IN  {i \in DOMAIN crumbs :
            /\ "name" \in DOMAIN crumbs[i].v
            /\ crumbs[i].v["name"].t = "str"
            /\ SameIgnoringCase(crumbs[i].v["name"].v, wanted)}

\* The name of the first breadcrumb in Matching(wanted), else `sentinel`.
FirstMatch(wanted, sentinel) ==
    LET crumbs == SearchPath(data, "breadcrumbs").v
        hits == Matching(wanted)
    IN  IF hits = {} THEN Str(sentinel)
        ELSE crumbs[CHOOSE i \in hits : \A j \in hits : i <= j].v["name"]

PricedBlocks(result) ==
    IF result.t = "dict" /\ "blocks" \in DOMAIN result.v /\ result.v["blocks"].t = "list"
    THEN {j \in DOMAIN result.v["blocks"].v :
            /\ result.v["blocks"].v[j].t = "dict"
            /\ "finalPrice" \in DOMAIN result.v["blocks"].v[j].v}
    ELSE {}

\* The page-0 results that hold such a block.
PricedResults ==
    LET results == SearchPath(data, "results")
    IN  IF results.t = "list"
        THEN {i \in DOMAIN results.v : PricedBlocks(results.v[i]) # {}}
        ELSE {}

\* The currency of the first finalPrice block of the first result that has
\* one.
FirstCurrency ==
    LET results == SearchPath(data, "results").v
        i == CHOOSE i \in PricedResults : \A k \in PricedResults : i <= k
        blocks == results[i].v["blocks"].v
        j == CHOOSE j \in PricedBlocks(results[i]) : \A k \in PricedBlocks(results[i]) : j <= k
    IN  Sub(Sub(blocks[j], "finalPrice"), "currency")

\* C18 as stated: when check_info cross-checks a page-0 response with a
\* block-level finalPrice object, the echoed currency is the currency of the
\* first such object in result order; later results do not change it.
C18_FirstPriceDecidesCurrency ==
    (CrossChecked /\ PricedResults # {}) => _check_currency_data(data) = FirstCurrency

\* Every echoed field other than f could be extracted and equals the request.
OthersAgree(f) ==
    \A g \in EchoedFields \ {f} :
        /\ ~IsExc(BookingDetails(data, req)[g])
        /\ PyEq(req[g], BookingDetails(data, req)[g])

\* check_info returned and scrape_graphql went on to the fan-out.
Continued == session # "none"

\* C19 as stated: when check_info cross-checks a page-0 response whose
\* results hold no block-level finalPrice object (no result, no blocks, null
\* blocks, blocks without finalPrice), the echoed currency is USD, nothing is
\* raised, and the search is not aborted when the other echoed fields agree
\* with the request: it goes on to the fan-out.
C19_MissingCurrencyDefaultsToUSD ==
    (/\ CrossChecked
     /\ SearchPath(data, "results").t = "list"
     /\ PricedResults = {}
     /\ OthersAgree("selected_currency"))
        => /\ BookingDetails(data, req).selected_currency = Str("USD")
           /\ Continued

\* The page-0 response has an applied-filter option with urlId "ht_id=204".
HasMarker ==
    LET options == SearchPath(data, "appliedFilterOptions")
    IN  /\ options.t = "list"
        /\ \E i \in DOMAIN options.v :
              /\ options.v[i].t = "dict"
              /\ "urlId" \in DOMAIN options.v[i].v
              /\ options.v[i].v["urlId"] = Str("ht_id=204")

\* The applied-filter options of the page-0 response are a list, or the
\* response has no appliedFilterOptions path.
OptionsListedOrAbsent ==
    LET options == SearchPath(data, "appliedFilterOptions")
    IN  options.t = "list" \/ options = Exc("KeyError")

\* C20 as stated: the echoed hotel-only flag is true exactly when the page-0
\* response has the marker, and a response without the marker does not end
\* the search, whatever the hotel-only flag of the request: when the other
\* echoed fields agree with the request the search goes on to the fan-out.
C20_MissingMarkerNeverAborts ==
    (CrossChecked /\ OptionsListedOrAbsent /\ OthersAgree("scrape_only_hotel"))
        => /\ BookingDetails(data, req).scrape_only_hotel = Bool(HasMarker)
           /\ ~HasMarker => (outcome # "abort" /\ Continued)

\* C20 as amended: the echoed hotel-only flag is true exactly when the page-0
\* response has the marker, and extracting it from a response without the
\* marker or without the appliedFilterOptions path raises nothing; when
\* the other echoed fields agree with the request, the search goes on to the
\* fan-out exactly when the echoed flag equals the hotel-only flag of the
\* request, and is aborted by check_info otherwise.
C20_MarkerMustMatchRequest ==
    (CrossChecked /\ OptionsListedOrAbsent /\ OthersAgree("scrape_only_hotel"))
        => /\ BookingDetails(data, req).scrape_only_hotel = Bool(HasMarker)
           /\ IF req.scrape_only_hotel = Bool(HasMarker)
              THEN outcome # "abort" /\ Continued
              ELSE outcome = "abort" /\ NoFanOut

\* A response without the appliedFilterOptions path answered a request whose
\* hotel-only flag is false, and the fan-out has been gathered into a table.
C20_Witness ==
    /\ CrossChecked
    /\ IsExc(SearchPath(data, "appliedFilterOptions"))
    /\ req.scrape_only_hotel = Bool(FALSE)
    /\ pc = "done"
    /\ outcome = "table"
    /\ table # <<>>

\* The nested paths check_info reads besides the total and the filter
\* options, and those of them the page-0 response lacks.
ExpectedPaths == {"breadcrumbs", "results", "dateRangeCalendar", "searchMeta"}

PathValue(p) ==
    IF p = "dateRangeCalendar"
    THEN Sub(SearchPath(data, "flexibleDatesConfig"), "dateRangeCalendar")
    ELSE SearchPath(data, p)

MissingPaths == {p \in ExpectedPaths : PathValue(p) = Exc("KeyError")}

\* C21 as stated: a page-0 response that reports a non-zero total count but
\* lacks one of the paths breadcrumbs, results,
\* flexibleDatesConfig.dateRangeCalendar or searchMeta does not make
\* scrape_graphql raise: the search ends by returning a table.
C21_MissingPathIsDegrading ==
    (CrossChecked /\ MissingPaths # {}) => (outcome # "raise" /\ (pc = "done" => outcome = "table"))

\* C25: when the page-0 response has no nbResultsTotal or reports 0,
\* check_info makes no cross-check: whatever the echoed parameters are, the
\* search ends by returning the empty table, neither aborted nor raising,
\* and the page-0 request is the only request it has issued.
C25_NoCrossCheckWithoutTotal ==
    (Validated /\ (IsExc(ReportedTotal) \/ ReportedTotal = Num(0)))
        => /\ pc = "done"
           /\ outcome = "table"
           /\ table = <<>>
           /\ total = Num(0)
           /\ posts = 1
           /\ NoFanOut

\* A response that reports a total of 0 and echoes another city has ended
\* the search with the empty table after one request.
C25_Witness ==
    /\ Validated
    /\ ReportedTotal = Num(0)
    /\ EchoComplete
    /\ "city" \in Differing
    /\ outcome = "table"
    /\ posts = 1
    /\ NoFanOut

\* Where the gathered results hold a listing of `hotel`: pairs of a page
\* offset and a position in the page; and the first of them, by ascending
\* offset, then position.
Occurrences(hotel) ==
    {o \in UNION {{<<tasks[i].offset, k>> : k \in DOMAIN tasks[i].result.v} :
                     i \in DOMAIN tasks} :
        \E i \in DOMAIN tasks :
            tasks[i].offset = o[1] /\ HotelOf(tasks[i].result.v[o[2]]) = hotel}

FirstListing(hotel) ==
    LET o == CHOOSE o \in Occurrences(hotel) :
                 \A u \in Occurrences(hotel) :
                     o[1] < u[1] \/ (o[1] = u[1] /\ o[2] <= u[2])
        i == CHOOSE i \in DOMAIN tasks : tasks[i].offset = o[1]
    IN  ListingRow(tasks[i].result.v[o[2]])

GatheredHotels ==
    UNION {{HotelOf(tasks[i].result.v[k]) : k \in DOMAIN tasks[i].result.v} :
              i \in DOMAIN tasks}

\* C26: whatever the order in which the page fetches completed, a search
\* that returns a table has gathered the page results in ascending offset
\* order, and the table is decided by the responses alone: it holds a row
\* for a Hotel exactly when the first listing of that Hotel, by ascending
\* page offset and position in the page, is valid, and the row has the
\* Price, Review and Location of that first listing.
C26_GatheredInOffsetOrder ==
    (pc = "done" /\ outcome = "table" /\ tasks # <<>>) =>
        /\ \A i \in DOMAIN tasks :
              /\ tasks[i].offset = (i - 1) * PageSize
              /\ tasks[i].result = fetch_hotel_data(tasks[i].response)
        /\ \A hotel \in GatheredHotels :
              IF Removable(FirstListing(hotel))
              THEN \A k \in DOMAIN table : table[k].Hotel # hotel
              ELSE \E k \in DOMAIN table :
                      /\ table[k].Hotel = hotel
                      /\ table[k].Price = FirstListing(hotel).Price
                      /\ table[k].Review = FirstListing(hotel).Review
                      /\ table[k].Location = FirstListing(hotel).Location
                      /\ \A j \in DOMAIN table : table[j].Hotel = hotel => j = k
        /\ \A k \in DOMAIN table : table[k].Hotel \in GatheredHotels

\* The fetch of offset 100 completed before the fetch of offset 0; both
\* pages list "Hotel A", at 20 and at 10, and the table holds it at 10.
C26_Witness ==
    /\ pc = "done"
    /\ outcome = "table"
    /\ overtaken
    /\ Len(tasks) = 2
    /\ tasks[1].result = List(<<HotelA, HotelB>>)
    /\ tasks[2].result = List(<<HotelDear>>)
    /\ \E k \in DOMAIN table : table[k].Hotel = Str("Hotel A") /\ table[k].Price = Num(10)

\* The names the breadcrumbs of the page-0 response spell out.
CrumbNames ==
    LET crumbs == SearchPath(data, "breadcrumbs").v
    IN  {crumbs[i].v["name"] : i \in {j \in DOMAIN crumbs :
            "name" \in DOMAIN crumbs[j].v /\ crumbs[j].v["name"].t = "str"}}

\* The requested city or country is spelled by a breadcrumb up to letter
\* case, and the first such breadcrumb spells it in another way.
CaseDiffers(f) ==
    /\ Matching(req[f].v) # {}
    /\ FirstMatch(req[f].v, "") # req[f]

\* C27: the cross-check of check_info compares the requested city and
\* country with the matched breadcrumb names as they are spelled: a search
\* goes on to the fan-out only when each of them equals the name of a
\* breadcrumb character for character, and when every echoed field could be
\* extracted, a requested city or country that differs from the name of its
\* matching breadcrumb in letter case only aborts the search.
C27_CrossCheckIsCaseSensitive ==
    (CrossChecked /\ SearchPath(data, "breadcrumbs").t = "list") =>
        /\ Continued => (req.city \in CrumbNames /\ req.country \in CrumbNames)
        /\ \A f \in {"city", "country"} :
              (EchoComplete /\ CaseDiffers(f)) => (outcome = "abort" /\ NoFanOut)

\* The request spells the city "osaka", the breadcrumb spells it "Osaka",
\* every other echoed field agrees, and the search was aborted.
C27_Witness ==
    /\ CrossChecked
    /\ SearchPath(data, "breadcrumbs") = List(<<Crumb("Japan"), Crumb("Osaka")>>)
    /\ req.city = Str("osaka")
    /\ OthersAgree("city")
    /\ outcome = "abort"
    /\ NoFanOut

\* scrape_graphql has ended in one of its three ways.
Terminated == pc = "done" /\ outcome \in {"table", "abort", "raise"}

\* The requests sent so far: the page-0 request and those of the fan-out.
RequestsSent == <<posts, [i \in DOMAIN tasks |-> tasks[i].sent]>>

\* C30: when every request sent is resolved, every call of scrape_graphql
\* ends, in exactly one of three ways (a table, the abort of the validation,
\* an exception), and the way it ended never changes; before that it has no
\* outcome.  The fan-out has at most one task per offset, no task sends
\* more than one request, and once scrape_graphql has ended no further
\* request is sent.
C30_SearchTerminates ==
    /\ <>Terminated
    /\ [](IF pc = "done" THEN Terminated ELSE outcome = "none")
    /\ [][pc = "done" => (pc' = "done" /\ outcome' = outcome /\ table' = table)]_vars
    /\ [](\A i, j \in DOMAIN tasks :
            /\ tasks[i].sent <= 1
            /\ tasks[i].offset = tasks[j].offset => i = j)
    /\ [][pc = "done" => RequestsSent' = RequestsSent]_vars

\* The gathered fan-out raised while the fetch of offset 100 was in flight;
\* that fetch has since failed on the closed session, and each of the two
\* offsets was requested once.
C30_Witness ==
    /\ Terminated
    /\ outcome = "raise"
    /\ session = "closed"
    /\ Len(tasks) = 2
    /\ \A i \in DOMAIN tasks : tasks[i].st = "done" /\ tasks[i].sent = 1
    /\ overtaken = FALSE
    /\ IsExc(tasks[1].result)
    /\ tasks[2].response.kind = "error"
    /\ posts = 1

(***************************************************************************)
(* Properties of the listing extractor (specification SpecExtract)         *)
(***************************************************************************)

\* C7 as stated: a call with an empty list appends nothing, and a call with
\* N >= 1 raw listings appends exactly one batch, which holds N rows.
C7_OneBatchPerCall ==
    [][Extract =>
        IF raw = <<>> THEN df_list' = df_list
        ELSE /\ Len(df_list') = Len(df_list) + 1
             /\ Len(df_list'[Len(df_list')]) = Len(raw)
             /\ SubSeq(df_list', 1, Len(df_list)) = df_list]_vars

\* C7 as amended: a call with an empty list appends nothing, and a call with
\* N >= 1 raw listings appends exactly N batches of one row each, after the
\* batches the collection already held.
C7_OneBatchPerListing ==
    [][Extract =>
        /\ Len(df_list') = Len(df_list) + Len(raw)
        /\ SubSeq(df_list', 1, Len(df_list)) = df_list
        /\ \A i \in 1..Len(raw) : Len(df_list'[Len(df_list) + i]) = 1]_vars

\* One call with two raw listings has been made on a collection that held a
\* batch already.
C7_Witness ==
    /\ pc = "extracted"
    /\ Len(raw) = 2
    /\ Len(df_list) = 3

\* The value at a path of a raw listing, None when a node of the path is
\* missing or null.
OrNone(x) == IF IsExc(x) THEN None ELSE x

\* C8: the rows extracted from the raw listings are, in input order, one per
\* listing, and each of Hotel, Review, Price and Location is the value at its
\* own path, or null when a node of that path is missing or null, whatever
\* the other three paths hold.
C8_FieldsIndependent ==
    pc = "extracted" =>
        LET rows == Flatten(df_list)
            before == Len(rows) - Len(raw)
        IN  /\ before >= 0
            /\ \A i \in 1..Len(raw) :
                 LET h == raw[i]
                     row == rows[before + i]
                 IN  /\ row.Hotel = OrNone(Sub(Sub(h, "displayName"), "text"))
                     /\ row.Review = OrNone(Sub(Sub(Sub(h, "basicPropertyData"),
                                                    "reviewScore"), "score"))
                     /\ row.Price = OrNone(Sub(Sub(First(Sub(h, "blocks")),
                                                   "finalPrice"), "amount"))
                     /\ row.Location = OrNone(Sub(Sub(h, "location"), "displayLocation"))

\* A listing whose reviewScore is null gave a row with a null Review and the
\* other three fields set.
C8_Witness ==
    /\ pc = "extracted"
    /\ \E i \in 1..Len(raw) :
         /\ raw[i] = With(HotelA, "basicPropertyData", Dict([reviewScore |-> None]))
         /\ LET row == Flatten(df_list)[Len(Flatten(df_list)) - Len(raw) + i]
            IN  /\ row.Review = None
                /\ row.Hotel = Str("Hotel A")
                /\ row.Price = Num(10)
                /\ row.Location = Str("Osaka")

(***************************************************************************)
(* Properties of the table assembler (specification SpecTransform)         *)
(***************************************************************************)

\* The input row an output row comes from.
Origin(row) == raw[CHOOSE i \in DOMAIN raw : raw[i].idx = row.idx]

\* A cell that holds neither a missing value nor the number zero.
Present(x) == x.t # "None"
NonZero(x) == ~PyEq(x, Num(0))

\* C9: every row of the table assembled from a non-empty input has Hotel,
\* Price and Review non-null, Price and Review other than 0, the given city
\* and check-in date, and a Hotel no other row has; and it comes from an
\* input row whose Hotel, Price and Review are neither null nor 0.
C9_AssembledRowsAreValid ==
    (pc = "transformed" /\ raw # <<>>) =>
        /\ \A i \in DOMAIN out :
             /\ Present(out[i].Hotel)
             /\ out[i].Price.t = "num" /\ out[i].Price.v # 0
             /\ out[i].Review.t = "num" /\ out[i].Review.v # 0
             /\ out[i].City = req.city
             /\ out[i].Date = req.check_in
             /\ \E k \in DOMAIN raw : raw[k].idx = out[i].idx
             /\ Present(Origin(out[i]).Hotel)
             /\ Present(Origin(out[i]).Price) /\ NonZero(Origin(out[i]).Price)
             /\ Present(Origin(out[i]).Review) /\ NonZero(Origin(out[i]).Review)
        /\ \A i, j \in DOMAIN out : i # j => ~PyEq(out[i].Hotel, out[j].Hotel)

\* An input with a duplicate Hotel and a zero Price was assembled into a
\* table that still holds a row.
C9_Witness ==
    /\ pc = "transformed"
    /\ out # <<>>
    /\ \E i, j \in DOMAIN raw : i # j /\ PyEq(raw[i].Hotel, raw[j].Hotel)
    /\ \E i \in DOMAIN raw : PyEq(raw[i].Price, Num(0))

DistinctHotels == \A i, j \in DOMAIN raw : i # j => ~PyEq(raw[i].Hotel, raw[j].Hotel)

\* The table has one row per input row, in input order.
OneRowPerInputRow ==
    /\ Len(out) = Len(raw)
    /\ \A i \in DOMAIN out : out[i].idx = raw[i].idx /\ PyEq(out[i].Hotel, raw[i].Hotel)

\* Price/Review is Price divided by Review on every row.
RatioIsQuotient ==
    \A i \in DOMAIN out :
        out[i]["Price/Review"].n * out[i].Review.v = out[i]["Price/Review"].d * out[i].Price.v

\* C10 as stated: when the input rows have pairwise distinct Hotel values and
\* Hotel, Review and Price present, the table has one row per input row, in
\* input order, without nulls, and Price/Review is Price divided by Review.
C10_NoRowLostWhenPresent ==
    (/\ pc = "transformed"
     /\ DistinctHotels
     /\ \A i \in DOMAIN raw :
          Present(raw[i].Hotel) /\ Present(raw[i].Review) /\ Present(raw[i].Price))
        => /\ OneRowPerInputRow
           /\ \A i \in DOMAIN out :
                \A c \in {"Hotel", "Review", "Price", "Location"} : Present(out[i][c])
           /\ RatioIsQuotient

\* C10 as amended: when the input rows have pairwise distinct Hotel values,
\* Hotel and Location present, and Price and Review numbers (or numeric text)
\* other than zero, the table has one row per input row, in input order,
\* without nulls, and Price/Review is Price divided by Review.
C10_NoRowLostWhenValid ==
    (/\ pc = "transformed"
     /\ DistinctHotels
     /\ \A i \in DOMAIN raw :
          /\ Present(raw[i].Hotel) /\ Present(raw[i].Location)
          /\ Present(to_numeric(raw[i].Price)) /\ NonZero(to_numeric(raw[i].Price))
          /\ Present(to_numeric(raw[i].Review)) /\ NonZero(to_numeric(raw[i].Review)))
        => /\ OneRowPerInputRow
           /\ \A i \in DOMAIN out :
                \A c \in {"Hotel", "Review", "Price", "Location"} : Present(out[i][c])
           /\ \A i \in DOMAIN out :
                /\ out[i].Price = to_numeric(raw[i].Price)
                /\ out[i].Review = to_numeric(raw[i].Review)
           /\ RatioIsQuotient

\* Three rows with distinct Hotels and valid cells were assembled into three
\* rows.
C10_Witness ==
    /\ pc = "transformed"
    /\ Len(raw) = 3
    /\ DistinctHotels
    /\ Len(out) = 3
    /\ out[3]["Price/Review"] = Frac(10, 4)

\* A row that the coercion and the null/zero filters remove: Hotel missing,
\* or Price or Review missing, non-numeric or zero.
Invalid(row) ==
    \/ ~Present(row.Hotel)
    \/ ~Present(to_numeric(row.Price)) \/ ~NonZero(to_numeric(row.Price))
    \/ ~Present(to_numeric(row.Review)) \/ ~NonZero(to_numeric(row.Review))

\* Input row i is the first row of its Hotel.
FirstOfHotel(i) == \A j \in 1..(i - 1) : ~PyEq(raw[j].Hotel, raw[i].Hotel)

\* C11: duplicates are dropped by Hotel, first occurrence kept, before the
\* coercion and the null/zero filters: when the first input row of a Hotel
\* has a non-numeric, null or zero Price or Review, the table holds no row
\* for that Hotel, also when a later row of the same Hotel is fully valid;
\* and a Hotel whose first row is valid is in the table with that row.
C11_DedupBeforeCoercion ==
    pc = "transformed" =>
        \A i \in DOMAIN raw :
            FirstOfHotel(i) =>
                IF Invalid(raw[i])
                THEN \A k \in DOMAIN out : ~PyEq(out[k].Hotel, raw[i].Hotel)
                ELSE \E k \in DOMAIN out : out[k].idx = raw[i].idx

\* The first row of Hotel A has a non-numeric Price, a later row of Hotel A
\* is valid, and the table holds another Hotel but no row of Hotel A.
C11_Witness ==
    /\ pc = "transformed"
    /\ \E i, j \in DOMAIN raw :
         /\ i < j
         /\ FirstOfHotel(i)
         /\ raw[i].Hotel = Str("A") /\ raw[j].Hotel = Str("A")
         /\ raw[i].Price = Str("abc")
         /\ ~Invalid(raw[j])
    /\ out # <<>>
    /\ \A k \in DOMAIN out : out[k].Hotel # Str("A")

\* The bijections of 1..n onto itself.
Orders(n) ==
    {p \in [1..n -> 1..n] : \A i, j \in 1..n : p[i] = p[j] => i = j}

\* The input of the assembler as the extractor delivers it, one batch per
\* row, and the concatenation of these batches taken in the order p.
Batches == [i \in DOMAIN raw |-> <<Row(raw[i].Hotel, raw[i].Price, raw[i].Review, raw[i].Location)>>]

Reordered(p) == concat_df_list([i \in DOMAIN raw |-> Batches[p[i]]])

\* The set of rows of a table, ignoring AsOf and the index.
Content(df) ==
    {[c \in {"Hotel", "Price", "Review", "Location", "Price/Review", "City", "Date"}
        |-> df[i][c]] : i \in DOMAIN df}

\* C22 as stated: for every permutation of the batches of its input,
\* transform_data_in_df applied to their concatenation yields the same set
\* of rows, ignoring AsOf.
C22_BatchOrderIrrelevant ==
    pc = "transformed" =>
        \A p \in Orders(Len(raw)) :
            Content(transform_data_in_df(req.check_in, req.city, Reordered(p), 1))
                = Content(out)

(***************************************************************************)
(* Properties of the store (specification SpecStore)                       *)
(***************************************************************************)

\* The five aggregate tables.
AggregateTables ==
    {"AverageRoomPriceByDateTable", "AverageHotelRoomPriceByReview",
     "AverageHotelRoomPriceByDayOfWeek", "AverageHotelRoomPriceByMonth",
     "AverageHotelRoomPriceByLocation"}

\* What the SELECT of an aggregate table gives on the stored HotelPrice rows.
AggregateOf(name) ==
    CASE name = "AverageRoomPriceByDateTable" -> ByDateRows(db.peers, db.HotelPrice)
      [] name = "AverageHotelRoomPriceByReview" -> ByReviewRows(db.peers, db.HotelPrice)
      [] name = "AverageHotelRoomPriceByDayOfWeek" -> ByDayOfWeekRows(db.peers, db.HotelPrice)
      [] name = "AverageHotelRoomPriceByMonth" -> ByMonthRows(db.peers, db.HotelPrice)
      [] name = "AverageHotelRoomPriceByLocation" -> ByLocationRows(db.peers, db.HotelPrice)

\* The database one run of the aggregate function of `name` leaves behind.
RunOf(name) ==
    CASE name = "AverageRoomPriceByDateTable" -> create_avg_hotel_room_price_by_date_table(db)
      [] name = "AverageHotelRoomPriceByReview" -> create_avg_room_price_by_review_table(db)
      [] name = "AverageHotelRoomPriceByDayOfWeek" -> create_avg_hotel_price_by_dow_table(db)
      [] name = "AverageHotelRoomPriceByMonth" -> create_avg_hotel_price_by_month_table(db)
      [] name = "AverageHotelRoomPriceByLocation" -> create_avg_room_price_by_location(db)

\* C12: after any sequence of migrations and aggregate runs, every aggregate
\* table whose run has completed holds exactly the rows its SELECT gives on
\* the HotelPrice rows stored now, so that no row of an earlier run is left
\* unless the stored rows give it again, and running its aggregate function
\* once more leaves the database as it is; a table no run has filled is empty.
C12_AggregatesFullyRecomputed ==
    pc = "store" =>
        \A name \in AggregateTables :
            IF name \in db.tables /\ "HotelPrice" \in db.tables
            THEN /\ db[name] = AggregateOf(name)
                 /\ RunOf(name) = db
            ELSE db[name] = {}

\* Three tables were migrated: the by-date average of 2024-07-05, which was
\* 20 after the first, is 25, and the date migrated last has no row.
C12_Witness ==
    /\ pc = "store"
    /\ outcome = "ok"
    /\ Len(db.HotelPrice) = 5
    /\ raw # <<>>
    /\ raw[1].Date = Str("2024-08-02")
    /\ db.HotelPrice[2].Price = Num(20)
    /\ db.HotelPrice[2].Date = Str("2024-07-05")
    /\ \E row \in db.AverageRoomPriceByDateTable :
         row.Date = Str("2024-07-05") /\ row.AveragePrice = Frac(25, 1)
    /\ \A row \in db.AverageRoomPriceByDateTable : row.Date # Str("2024-08-02")

\* The stored rows of one Review, and the position of row i among them by
\* ascending Price, rows of equal Price in the engine's order of peers.
Cohort(i) == {j \in DOMAIN db.HotelPrice : db.HotelPrice[j].Review = db.HotelPrice[i].Review}

PositionByPrice(i) ==
    1 + Cardinality({j \in Cohort(i) :
            \/ db.HotelPrice[j].Price.v < db.HotelPrice[i].Price.v
            \/ /\ db.HotelPrice[j].Price.v = db.HotelPrice[i].Price.v
               /\ IF db.peers = "asc" THEN j < i ELSE j > i})

\* The rows in the first b of four buckets of a partition of n rows, the
\* first n mod 4 buckets being one row larger.
RowsUpTo(b, n) == b * (n \div 4) + (IF b <= n % 4 THEN b ELSE n % 4)

\* The quartile of stored row i inside its Review cohort.
CohortQuartile(i) ==
    CHOOSE b \in 1..4 :
        /\ RowsUpTo(b - 1, Cardinality(Cohort(i))) < PositionByPrice(i)
        /\ PositionByPrice(i) <= RowsUpTo(b, Cardinality(Cohort(i)))

\* The stored rows of a date that lie in quartile 2 or 3.
MiddleRows(date) ==
    {i \in DOMAIN db.HotelPrice :
        db.HotelPrice[i].Date = date /\ CohortQuartile(i) \in {2, 3}}

RECURSIVE SumOfPrices(_)
SumOfPrices(S) ==
    IF S = {} THEN 0
    ELSE LET i == CHOOSE i \in S : TRUE
         IN  db.HotelPrice[i].Price.v + SumOfPrices(S \ {i})

\* C13: after a by-date run, the table has a row for a date exactly when
\* some HotelPrice row of that date lies in quartile 2 or 3 of the NTILE(4)
\* ranking by ascending Price inside its Review cohort (the first n mod 4
\* buckets one row larger), and its AveragePrice is the mean of Price over
\* exactly those rows; a single date with prices 10, 20, 30, 40 and equal
\* Review gives 25.
C13_ByDateInterquartileMean ==
    (pc = "store" /\ {"HotelPrice", "AverageRoomPriceByDateTable"} \subseteq db.tables) =>
        /\ \A row \in db.AverageRoomPriceByDateTable :
             /\ MiddleRows(row.Date) # {}
             /\ row.AveragePrice.n * Cardinality(MiddleRows(row.Date))
                    = row.AveragePrice.d * SumOfPrices(MiddleRows(row.Date))
             /\ \A other \in db.AverageRoomPriceByDateTable :
                    other.Date = row.Date => other = row
        /\ \A i \in DOMAIN db.HotelPrice :
             MiddleRows(db.HotelPrice[i].Date) # {}
                 => \E row \in db.AverageRoomPriceByDateTable : row.Date = db.HotelPrice[i].Date
        /\ (/\ Len(db.HotelPrice) = 4
            /\ {db.HotelPrice[i].Price.v : i \in 1..4} = {10, 20, 30, 40}
            /\ \A i \in 1..4 : /\ db.HotelPrice[i].Date = db.HotelPrice[1].Date
                               /\ db.HotelPrice[i].Review = db.HotelPrice[1].Review)
               => \A row \in db.AverageRoomPriceByDateTable : row.AveragePrice = Frac(25, 1)

\* HotelPrice holds four rows of one date and one Review with the prices 10,
\* 20, 30 and 40, and the by-date table holds the one row of that date, 25.
C13_Witness ==
    /\ pc = "store"
    /\ Len(db.HotelPrice) = 4
    /\ {db.HotelPrice[i].Price.v : i \in DOMAIN db.HotelPrice} = {10, 20, 30, 40}
    /\ \A i \in DOMAIN db.HotelPrice :
         /\ db.HotelPrice[i].Date = Str("2024-07-05")
         /\ db.HotelPrice[i].Review = Num(2)
    /\ db.AverageRoomPriceByDateTable =
         {[Date |-> Str("2024-07-05"), AveragePrice |-> Frac(25, 1), City |-> Str("Osaka")]}

\* A step that is one call of migrate_data_to_sqlite.
Migrating == \E df \in HotelTables : Migrate(df)

\* The rows stored before a step are the first rows stored after it.
RowsKept ==
    /\ Len(db'.HotelPrice) >= Len(db.HotelPrice)
    /\ \A i \in DOMAIN db.HotelPrice : db'.HotelPrice[i] = db.HotelPrice[i]

\* C14 as stated: a migration keeps every stored HotelPrice row as it is,
\* leaves HotelPrice with exactly k more rows for a table of k rows, and
\* creates the HotelPrice table if it is absent, also for an empty table.
C14_MigrateAppendsEveryRow ==
    [][Migrating =>
        /\ RowsKept
        /\ Len(db'.HotelPrice) = Len(db.HotelPrice) + Len(raw')
        /\ "HotelPrice" \in db'.tables]_vars

\* C14 as amended: a migration keeps every stored HotelPrice row as it is and
\* creates the HotelPrice table if it is absent, also for an empty table;
\* for a table of k rows without a null in Hotel, Price, Review, Location,
\* Price/Review, City or Date it leaves HotelPrice with exactly k more rows,
\* the rows of the table in order, and otherwise it raises and leaves
\* HotelPrice with the rows it had.
C14_MigrateAppendsOrRaises ==
    [][Migrating =>
        /\ RowsKept
        /\ "HotelPrice" \in db'.tables
        /\ IF \E i \in DOMAIN raw' :
                \E c \in {"Hotel", "Price", "Review", "Location", "Price/Review",
                          "City", "Date"} : raw'[i][c] = None
           THEN /\ db'.HotelPrice = db.HotelPrice
                /\ outcome' = "raise"
           ELSE /\ Len(db'.HotelPrice) = Len(db.HotelPrice) + Len(raw')
                /\ \A i \in DOMAIN raw' :
                     \A c \in HotelPriceColumns :
                         db'.HotelPrice[Len(db.HotelPrice) + i][c] = raw'[i][c]
                /\ outcome' = "ok"]_vars

\* A table of two rows was migrated into a HotelPrice table that held two
\* rows, which are still its first two.
C14_Witness ==
    /\ pc = "store"
    /\ outcome = "ok"
    /\ Len(raw) = 2
    /\ Len(db.HotelPrice) = 4
    /\ db.HotelPrice[1].Hotel # raw[1].Hotel
    /\ db.HotelPrice[3].Hotel = raw[1].Hotel
    /\ db.HotelPrice[4].Hotel = raw[2].Hotel

\* The primary-key column of an aggregate table, and for stored row i the
\* value its group has there and the value that tells its partition.
KeyColumn(name) ==
    CASE name = "AverageRoomPriceByDateTable" -> "Date"
      [] name = "AverageHotelRoomPriceByReview" -> "Review"
      [] name = "AverageHotelRoomPriceByDayOfWeek" -> "DayOfWeek"
      [] name = "AverageHotelRoomPriceByMonth" -> "Month"
      [] name = "AverageHotelRoomPriceByLocation" -> "Location"

GroupKey(name, i) ==
    CASE name = "AverageRoomPriceByDateTable" -> db.HotelPrice[i].Date
      [] name = "AverageHotelRoomPriceByReview" -> db.HotelPrice[i].Review
      [] name = "AverageHotelRoomPriceByDayOfWeek" ->
             day_of_week(strftime_w(db.HotelPrice[i].Date.v))
      [] name = "AverageHotelRoomPriceByMonth" -> month(strftime_m(db.HotelPrice[i].Date.v))
      [] name = "AverageHotelRoomPriceByLocation" -> db.HotelPrice[i].Location

PartitionKey(name, i) ==
    IF name = "AverageRoomPriceByDateTable" THEN db.HotelPrice[i].Review
    ELSE GroupKey(name, i)

\* The stored rows in the partition of row i, the position of row i among
\* them by ascending Price, and whether that position lies in quartile 2 or 3.
Partition(name, i) ==
    {j \in DOMAIN db.HotelPrice : PartitionKey(name, j) = PartitionKey(name, i)}

PriceRank(name, i) ==
    1 + Cardinality({j \in Partition(name, i) :
            \/ db.HotelPrice[j].Price.v < db.HotelPrice[i].Price.v
            \/ /\ db.HotelPrice[j].Price.v = db.HotelPrice[i].Price.v
               /\ IF db.peers = "asc" THEN j < i ELSE j > i})

InMiddle(name, i) ==
    \E b \in {2, 3} :
        /\ RowsUpTo(b - 1, Cardinality(Partition(name, i))) < PriceRank(name, i)
        /\ PriceRank(name, i) <= RowsUpTo(b, Cardinality(Partition(name, i)))

StoredKeys(name) == {GroupKey(name, i) : i \in DOMAIN db.HotelPrice}

SurvivingKeys(name) ==
    {GroupKey(name, i) : i \in {j \in DOMAIN db.HotelPrice : InMiddle(name, j)}}

TableKeys(name) == {row[KeyColumn(name)] : row \in db[name]}

OneRowPerKey(name) ==
    \A row, other \in db[name] :
        row[KeyColumn(name)] = other[KeyColumn(name)] => row = other

\* The aggregate run of `name` has completed on the stored rows.
Ran(name) == pc = "store" /\ {"HotelPrice", name} \subseteq db.tables

\* C23 as stated: after an aggregate run, each of the five aggregate tables
\* has exactly one row for every group key present in HotelPrice (every Date,
\* Review, day of week, month and Location), also for a key whose partition
\* has fewer than two rows.
C23_OneRowPerStoredKey ==
    \A name \in AggregateTables :
        Ran(name) => (OneRowPerKey(name) /\ TableKeys(name) = StoredKeys(name))

\* C23 as amended: after an aggregate run, the by-location table has exactly
\* one row for every Location present in HotelPrice; each of the other four
\* tables has at most one row per group key, and a row for a key exactly when
\* some HotelPrice row of that key lies in quartile 2 or 3 of the ranking by
\* Price inside its partition (the Review for the by-date and by-review
\* tables, the day of week, the month).  A row whose partition has fewer
\* than two rows never lies there, so a Review, a day of week or a month
\* with a single row has no row in its table.
C23_OneRowPerSurvivingKey ==
    \A name \in AggregateTables :
        Ran(name) =>
            /\ OneRowPerKey(name)
            /\ TableKeys(name) = IF name = "AverageHotelRoomPriceByLocation"
                                 THEN StoredKeys(name)
                                 ELSE SurvivingKeys(name)
            /\ \A i \in DOMAIN db.HotelPrice :
                   Cardinality(Partition(name, i)) < 2 => ~InMiddle(name, i)

\* A migration has stored rows among which one Review has a single row and
\* another has two: the by-review table has a row for the second only,
\* and the by-location table has a row for the Location of the single row.
C23_Witness ==
    /\ pc = "store"
    /\ outcome = "ok"
    /\ AggregateTables \subseteq db.tables
    /\ \E i, j \in DOMAIN db.HotelPrice :
         /\ Cardinality(Partition("AverageHotelRoomPriceByReview", i)) = 1
         /\ Cardinality(Partition("AverageHotelRoomPriceByReview", j)) = 2
         /\ TableKeys("AverageHotelRoomPriceByReview") = {db.HotelPrice[j].Review}
         /\ db.HotelPrice[i].Location \in TableKeys("AverageHotelRoomPriceByLocation")

\* The three statistics of the by-location table and the HotelPrice column
\* each of them ranks and averages.
LocationMetrics ==
    [AveragePrice |-> "Price", AverageRating |-> "Review",
     AveragePricePerReview |-> "Price/Review"]

\* The stored rows of one Location, the position of row i among them by
\* ascending column c, and the rows of the Location in quartile 2 or 3 of
\* that ranking.
RowsOf(place) == {i \in DOMAIN db.HotelPrice : db.HotelPrice[i].Location = place}

RankBy(c, i) ==
    1 + Cardinality({j \in RowsOf(db.HotelPrice[i].Location) :
            \/ LessRat(Rat(db.HotelPrice[j][c]), Rat(db.HotelPrice[i][c]))
            \/ /\ EqRat(Rat(db.HotelPrice[j][c]), Rat(db.HotelPrice[i][c]))
               /\ IF db.peers = "asc" THEN j < i ELSE j > i})

MiddleBy(c, place) ==
    {i \in RowsOf(place) :
        \E b \in {2, 3} :
            /\ RowsUpTo(b - 1, Cardinality(RowsOf(place))) < RankBy(c, i)
            /\ RankBy(c, i) <= RowsUpTo(b, Cardinality(RowsOf(place)))}

\* C24: after a by-location run, each of AveragePrice, AverageRating and
\* AveragePricePerReview of a Location is the mean of its column (Price,
\* Review, Price/Review) over the rows of the Location in quartile 2 or 3 of
\* the NTILE(4) ranking by that same column, and is 0 exactly when no row of
\* the Location lies there; every row of the other four aggregate tables
\* has a group key with a row in quartile 2 or 3 and an AveragePrice other
\* than 0.
C24_LocationAveragesCoalesced ==
    /\ Ran("AverageHotelRoomPriceByLocation") =>
          \A row \in db.AverageHotelRoomPriceByLocation :
              \A metric \in DOMAIN LocationMetrics :
                  LET middle == MiddleBy(LocationMetrics[metric], row.Location) IN
                  /\ row[metric] = Frac(0, 1) <=> middle = {}
                  /\ middle # {} =>
                        row[metric] = AVG(Reals(db.HotelPrice, LocationMetrics[metric]), middle)
    /\ \A name \in AggregateTables \ {"AverageHotelRoomPriceByLocation"} :
          Ran(name) =>
              \A row \in db[name] :
                  /\ row.AveragePrice # Frac(0, 1)
                  /\ row[KeyColumn(name)] \in SurvivingKeys(name)

\* Osaka has four stored rows whose rankings by Price and by Price/Review
\* differ, Kyoto has one: the row of Osaka holds 20, 2 and 15/2, the row of
\* Kyoto holds three zeros, and the by-review table has no row for the
\* Review of the Kyoto row.
C24_Witness ==
    /\ pc = "store"
    /\ outcome = "ok"
    /\ AggregateTables \subseteq db.tables
    /\ Cardinality(RowsOf(Str("Osaka"))) = 4
    /\ Cardinality(RowsOf(Str("Kyoto"))) = 1
    /\ [Location |-> Str("Osaka"), AveragePrice |-> Frac(20, 1),
        AverageRating |-> Frac(2, 1), AveragePricePerReview |-> Frac(15, 2)]
           \in db.AverageHotelRoomPriceByLocation
    /\ [Location |-> Str("Kyoto"), AveragePrice |-> Frac(0, 1),
        AverageRating |-> Frac(0, 1), AveragePricePerReview |-> Frac(0, 1)]
           \in db.AverageHotelRoomPriceByLocation
    /\ MiddleBy("Price", Str("Osaka")) # MiddleBy("Price/Review", Str("Osaka"))

\* The table the assembler returns for the rows of table df, taken as the
\* rows of one search.
Reassembled(df) ==
    transform_data_in_df(df[1].Date, df[1].City,
        DataFrame([i \in DOMAIN df |->
            Row(df[i].Hotel, df[i].Price, df[i].Review, df[i].Location)]), df[1].AsOf)

NullLocation(df) == {i \in DOMAIN df : df[i].Location = None}

\* C28: the assembler keeps a row whose Location is null when its Hotel,
\* Price and Review are valid, so the table handed to a migration can hold
\* such a row; that migration raises, HotelPrice keeps exactly the rows it
\* had, no row of the table among them, and no aggregate table changes.
C28_NullLocationBlocksMigration ==
    [][(Migrating /\ NullLocation(raw') # {}) =>
          /\ Content(Reassembled(raw')) = Content(raw')
          /\ Len(Reassembled(raw')) = Len(raw')
          /\ outcome' = "raise"
          /\ db'.HotelPrice = db.HotelPrice
          /\ \A name \in AggregateTables : db'[name] = db[name]]_vars

\* HotelPrice holds two rows; the migration of a table of two rows, the
\* second with a null Location, has raised and stored neither.
C28_Witness ==
    /\ pc = "store"
    /\ outcome = "raise"
    /\ Len(raw) = 2
    /\ NullLocation(raw) = {2}
    /\ raw[1].Location = Str("Osaka")
    /\ Len(db.HotelPrice) = 2
    /\ \A i \in DOMAIN db.HotelPrice : db.HotelPrice[i].Hotel # raw[1].Hotel

\* The row of a date in the by-date table of database d, if any, and the
\* dates of the rows of a table.
EntryOf(d, date) == {row \in d.AverageRoomPriceByDateTable : row.Date = date}

DatesOf(df) == {df[i].Date : i \in DOMAIN df}

\* The rows stored before the migration that a state follows.
StoredBefore == SubSeq(db.HotelPrice, 1, Len(db.HotelPrice) - Len(raw))

\* C29: a migration that appends rows of other dates leaves the HotelPrice
\* rows of a stored date D as they are, yet the by-date row of D afterwards
\* is the one given by the quartiles of the Review cohorts over the rows of
\* all dates, the appended ones included: D has a row exactly when one of
\* its rows lies in quartile 2 or 3 of its cohort, with the mean of Price
\* over those rows, so that the stored AveragePrice of D may change or its
\* row vanish; it differs from the row D had only when an appended row
\* has the Review of a row of D.
C29_OtherDatesMoveByDateAverage ==
    [][(Migrating /\ outcome' = "ok") =>
          /\ RowsKept
          /\ \A date \in DatesOf(db.HotelPrice) \ DatesOf(raw') :
                /\ (EntryOf(db', date) = {}) <=> (MiddleRows(date)' = {})
                /\ \A row \in EntryOf(db', date) :
                      row.AveragePrice.n * Cardinality(MiddleRows(date)')
                          = row.AveragePrice.d * SumOfPrices(MiddleRows(date))'
                /\ EntryOf(db', date) # EntryOf(db, date) =>
                      \E i \in DOMAIN db.HotelPrice : \E j \in DOMAIN raw' :
                          /\ db.HotelPrice[i].Date = date
                          /\ raw'[j].Review = db.HotelPrice[i].Review]_vars

\* HotelPrice held the rows of 2024-07-05 at 30 and 40 with Review 2, and
\* the by-date average of that date was 40; rows of 2024-08-02 at 12 and 15
\* with Review 2 were appended, and the average stored for 2024-07-05 is 30.
C29_Witness ==
    /\ pc = "store"
    /\ outcome = "ok"
    /\ Len(raw) = 2
    /\ Len(db.HotelPrice) = 4
    /\ DatesOf(raw) = {Str("2024-08-02")}
    /\ DatesOf(StoredBefore) = {Str("2024-07-05")}
    /\ \A i \in DOMAIN db.HotelPrice : db.HotelPrice[i].Review = Num(2)
    /\ {row.AveragePrice : row \in ByDateRows(db.peers, StoredBefore)} = {Frac(40, 1)}
    /\ {row.AveragePrice : row \in EntryOf(db, Str("2024-07-05"))} = {Frac(30, 1)}

====
